---- MODULE Spec2Model ----
(***************************************************************************)
(* MediCore: the Express route handlers over the Mongo collections          *)
(* (patients, appointments, reports, bills) with the protect / authorize    *)
(* gates in front of them.  One action is one request handled to            *)
(* completion; `resp` is the request being answered and its response, and   *)
(* Close sends it, after which the next request is taken.  Each router is   *)
(* modelled at the path its @route comments give.                           *)
(***************************************************************************)
EXTENDS Integers, Sequences, FiniteSets, TLC

VARIABLES patients, appointments, reports, bills, clock, resp, flight

vars == <<patients, appointments, reports, bills, clock, resp, flight>>
store == <<patients, appointments, reports, bills>>

----------------------------------------------------------------------------
(* Bounds of the model *)

(* documents ever inserted, over all collections; the latest timestamp *)
MaxDocs == 3
MaxClock == 3
MaxFlight == 2

----------------------------------------------------------------------------
(* Users and roles.  Accounts are made by the auth routes; the handlers     *)
(* modelled here only read them.                                            *)

Roles == {"admin", "doctor", "reception", "patient"}

Users == {"admin1", "recep1", "doc1", "doc2", "doc3", "pat1", "pat2"}

NoUser == "anon"

(* the callers the requests are tried with: one of each staff role, two     *)
(* patients, and a request without a valid token                           *)
Callers == {"admin1", "recep1", "doc1", "pat1", "pat2", NoUser}

UserRole(u) ==
    CASE u = "admin1" -> "admin"
      [] u = "recep1" -> "reception"
      [] u = "doc1"   -> "doctor"
      [] u = "doc2"   -> "doctor"
      [] u = "doc3"   -> "doctor"
      [] u = "pat1"   -> "patient"
      [] u = "pat2"   -> "patient"
      [] OTHER        -> "none"

(* an absent (undefined) string or reference; a body field is <<>> when    *)
(* the body does not carry it and <<v>> when it carries v                  *)
None == "none"
NoId == 0
Absent == <<>>
(* a JSON null *)
Null == "null"
Given(v) == <<v>>

----------------------------------------------------------------------------
(* Documents.  A collection is the sequence of the documents ever inserted, *)
(* indexed by id (ObjectIds are never reused); a deleted one has live=FALSE.*)

Phones == {"9876543210", "9123456780"}

PatientDoc(phone, userId) == [live |-> TRUE, phone |-> phone, userId |-> userId]
GonePatient == [live |-> FALSE, phone |-> None, userId |-> None]

AppointmentStatuses == {"pending", "approved", "cancelled", "completed"}

AppointmentDoc(patientId, doctorId, createdBy) ==
    [live |-> TRUE, patientId |-> patientId, doctorId |-> doctorId, status |-> "pending",
     createdBy |-> createdBy]
GoneAppointment ==
    [live |-> FALSE, patientId |-> NoId, doctorId |-> NoId, status |-> None,
     createdBy |-> None]

(* the diagnosis the body of a create carries, and those of an update *)
BodyDiagnosis == "fever"
Diagnoses == {"cold", ""}

ReportDoc(appointmentId, patientId, doctorId, diagnosis, createdBy) ==
    [live |-> TRUE, appointmentId |-> appointmentId, patientId |-> patientId,
     doctorId |-> doctorId, diagnosis |-> diagnosis, createdBy |-> createdBy]
GoneReport ==
    [live |-> FALSE, appointmentId |-> NoId, patientId |-> NoId, doctorId |-> NoId,
     diagnosis |-> None, createdBy |-> None]

PaymentStatuses == {"pending", "paid", "failed"}

NoDate == 0

BillDoc(patientId, appointmentId, totalAmount, createdBy) ==
    [live |-> TRUE, patientId |-> patientId, appointmentId |-> appointmentId,
     totalAmount |-> totalAmount, paymentStatus |-> "pending", paidAt |-> NoDate,
     createdBy |-> createdBy]

(* The doctors collection: its routes are not among the handlers modelled,  *)
(* so it is a fixed collection: doctor 1 is the record of user doc1.        *)
Doctors == <<[live |-> TRUE, userId |-> "doc1"], [live |-> TRUE, userId |-> "doc2"]>>

(* ids a request may name: of a live document, of a deleted one, or the    *)
(* next one, which no document has yet                                     *)
PatientIds == 1..(Len(patients) + 1)
AppointmentIds == 1..(Len(appointments) + 1)
ReportIds == 1..(Len(reports) + 1)
BillIds == 1..(Len(bills) + 1)
(* the doctorId a create is tried with: a doctor, and an id of no doctor *)
DoctorIds == {1, Len(Doctors) + 1}

Inserted == Len(patients) + Len(appointments) + Len(reports) + Len(bills)
Room(coll) == Inserted < MaxDocs

----------------------------------------------------------------------------
(* Mongoose queries *)

(* Model.findById(id): the live document with that id, or null *)
Found(coll, id) == id \in 1..Len(coll) /\ coll[id].live

(* Patient.findOne({ phone }): id of the first matching document, 0 for null *)
FindPatientByPhone(phone) ==
    LET hits == {i \in 1..Len(patients) : patients[i].live /\ patients[i].phone = phone}
    IN  IF hits = {} THEN NoId ELSE CHOOSE i \in hits : \A j \in hits : i <= j

(* Patient.findOne({ userId: req.user.id }) *)
FindPatientByUser(u) ==
    LET hits == {i \in 1..Len(patients) : patients[i].live /\ patients[i].userId = u}
    IN  IF hits = {} THEN NoId ELSE CHOOSE i \in hits : \A j \in hits : i <= j

RemoveNothing(coll, id, gone) == coll

(* doc.deleteOne() *)
Remove(coll, id, gone) == [coll EXCEPT ![id] = gone]

----------------------------------------------------------------------------
(* The gates in front of a handler *)

(* protect: the bearer token resolves to a live user *)
protect(caller) == caller \in Users

(* authorize(...roles): the caller's role is in the endpoint's allow-list *)
authorize(roles, caller) == UserRole(caller) \in roles

(* the centralized error handler: the status of an error a handler throws *)
errorHandler(kind) == IF kind = "ValidationError" THEN 400 ELSE 500

(* `handler` tells whether the handler's body ran; `was` is the document   *)
(* an update's findById read, before it wrote                              *)
Response(op, caller, id, refs, status, error, entered) ==
    [op |-> op, caller |-> caller, id |-> id, refs |-> refs,
     status |-> status, error |-> error, handler |-> entered, was |-> <<>>]

Updated(r, doc) == [r EXCEPT !.was = <<doc>>]

NoRefs == <<>>

(* no request is being answered *)
Idle == Response("idle", NoUser, NoId, NoRefs, 0, None, FALSE)

(* the requests in flight: a slot holds a request that waits on the store  *)
(* between two of its queries, or is free                                   *)
Slots == 1..MaxFlight
Free == [op |-> "free"]
NoFlight == [s \in Slots |-> Free]

(* a request is taken and handled to its response in one step: no response *)
(* is waiting to be sent, and no request in flight moves meanwhile           *)
Serve == resp = Idle /\ UNCHANGED flight

(* what the gates answer when they stop the request, which they do before  *)
(* anything of the request but its token is read                           *)
Gated(op, caller) ==
    IF ~protect(caller)
    THEN Response(op, caller, NoId, NoRefs, 401, "Not authorized", FALSE)
    ELSE Response(op, caller, NoId, NoRefs, 403, "Forbidden", FALSE)

Passes(caller, roles) == protect(caller) /\ authorize(roles, caller)

(* a listing route: the gates, then a read of the collection *)
Listing(op, roles, caller) ==
    /\ Serve
    /\ IF ~Passes(caller, roles)
       THEN resp' = Gated(op, caller)
       ELSE resp' = Response(op, caller, NoId, NoRefs, 200, None, TRUE)
    /\ UNCHANGED <<store, clock>>

----------------------------------------------------------------------------
(* /api/patients *)

PatientsPostRoles == {"admin", "reception"}
PatientsListRoles == {"admin", "reception", "doctor"}
PatientsSearchRoles == {"admin", "reception", "doctor"}
PatientsPutRoles == {"admin", "reception"}
PatientsDeleteRoles == {"admin"}

PostPatient(caller, phone, userId) ==
    LET op == "POST /api/patients"
        refs == <<phone, userId>>
    IN  /\ Serve
        /\ IF ~Passes(caller, PatientsPostRoles)
           THEN /\ resp' = Gated(op, caller)
                /\ UNCHANGED patients
           ELSE IF FindPatientByPhone(phone) # NoId
           THEN /\ resp' = Response(op, caller, NoId, refs, 400,
                                    "Patient with this phone number already exists", TRUE)
                /\ UNCHANGED patients
           ELSE /\ Room(patients)
                /\ patients' = Append(patients, PatientDoc(phone, userId))
                /\ resp' = Response(op, caller, Len(patients) + 1, refs, 201, None, TRUE)
        /\ UNCHANGED <<appointments, reports, bills, clock>>

(* String(x) of an ObjectId, and of a populated document: Mongoose's        *)
(* Document.toString() prints the document, it does not give its id.        *)
IdString(x) == <<"id", x>>
DocString(x) == <<"doc", x>>

(* .populate(path): the referenced document, or null when it is gone *)
PopulateUser(userId) == IF userId \in Users THEN userId ELSE None
Populate(coll, id) == IF Found(coll, id) THEN id ELSE NoId

(* GET /api/patients/:id, the condition of the 403 branch *)
PatientViewDenied(caller, doc) ==
    /\ UserRole(caller) = "patient"
    /\ PopulateUser(doc.userId) # None
    /\ DocString(PopulateUser(doc.userId)) # IdString(caller)

GetPatient(caller, id) ==
    LET op == "GET /api/patients/:id"
    IN  /\ Serve
        /\ IF ~protect(caller)
           THEN resp' = Gated(op, caller)
           ELSE IF ~Found(patients, id)
           THEN resp' = Response(op, caller, id, NoRefs, 404, "Patient not found", TRUE)
           ELSE IF PatientViewDenied(caller, patients[id])
           THEN resp' = Response(op, caller, id, NoRefs, 403,
                                 "Not authorized to view this patient record", TRUE)
           ELSE resp' = Response(op, caller, id, NoRefs, 200, None, TRUE)
        /\ UNCHANGED <<store, clock>>

(* findByIdAndUpdate(id, update): a key whose value is undefined is left    *)
(* out of the update, so the stored value stays.                            *)
Merge(stored, given) == IF given = Absent THEN stored ELSE given[1]

(* the keys of req.body an update handler does not destructure: a record,   *)
(* empty when the body has none                                             *)
NoOthers == <<>>

DestructuredWhole(doc, others) ==
    [f \in DOMAIN doc |-> IF f \in DOMAIN others THEN others[f] ELSE doc[f]]

(* "const { ... } = req.body": the update is built from the keys named,     *)
(* and the other keys of the body do not reach it                           *)
Destructured(doc, others) == doc

PhoneChangeTakenUnchecked(phone, doc) ==
    phone # Absent /\ phone[1] = doc.phone /\ FindPatientByPhone(phone[1]) # NoId

(* PUT /api/patients/:id, the phone check *)
PhoneChangeTaken(phone, doc) ==
    phone # Absent /\ phone[1] # doc.phone /\ FindPatientByPhone(phone[1]) # NoId

PutPatient(caller, id, phone) ==
    LET op == "PUT /api/patients/:id"
        refs == <<phone>>
    IN  /\ Serve
        /\ IF ~Passes(caller, PatientsPutRoles)
           THEN /\ resp' = Gated(op, caller)
                /\ UNCHANGED patients
           ELSE IF ~Found(patients, id)
           THEN /\ resp' = Response(op, caller, id, refs, 404, "Patient not found", TRUE)
                /\ UNCHANGED patients
           ELSE IF PhoneChangeTaken(phone, patients[id])
           THEN /\ resp' = Response(op, caller, id, refs, 400,
                                    "Patient with this phone number already exists", TRUE)
                /\ UNCHANGED patients
           ELSE /\ patients' = [patients EXCEPT ![id].phone = Merge(@, phone)]
                /\ resp' = Updated(Response(op, caller, id, refs, 200, None, TRUE), patients[id])
        /\ UNCHANGED <<appointments, reports, bills, clock>>

DeletePatientCascading(caller, id) ==
    LET op == "DELETE /api/patients/:id"
    IN  /\ Serve
        /\ IF ~Passes(caller, PatientsDeleteRoles)
           THEN /\ resp' = Gated(op, caller)
                /\ UNCHANGED <<patients, appointments>>
           ELSE IF ~Found(patients, id)
           THEN /\ resp' = Response(op, caller, id, NoRefs, 404, "Patient not found", TRUE)
                /\ UNCHANGED <<patients, appointments>>
           ELSE /\ patients' = Remove(patients, id, GonePatient)
                /\ appointments' = [i \in 1..Len(appointments) |->
                                       IF appointments[i].patientId = id
                                       THEN GoneAppointment ELSE appointments[i]]
                /\ resp' = Response(op, caller, id, NoRefs, 200, None, TRUE)
        /\ UNCHANGED <<reports, bills, clock>>

DeletePatient(caller, id) ==
    LET op == "DELETE /api/patients/:id"
    IN  /\ Serve
        /\ IF ~Passes(caller, PatientsDeleteRoles)
           THEN /\ resp' = Gated(op, caller)
                /\ UNCHANGED patients
           ELSE IF ~Found(patients, id)
           THEN /\ resp' = Response(op, caller, id, NoRefs, 404, "Patient not found", TRUE)
                /\ UNCHANGED patients
           ELSE /\ patients' = Remove(patients, id, GonePatient)
                /\ resp' = Response(op, caller, id, NoRefs, 200, None, TRUE)
        /\ UNCHANGED <<appointments, reports, bills, clock>>

----------------------------------------------------------------------------
(* Owner-restricted reads: "If patient, verify they can only see their own" *)
(* The record's patientId is populated, and null when that patient is gone, *)
(* so reading its _id throws.                                               *)
OwnerCheck(caller, patientRef) ==
    IF UserRole(caller) # "patient" THEN "ok"
    ELSE IF FindPatientByUser(caller) = NoId THEN "forbidden"
    ELSE IF Populate(patients, patientRef) = NoId THEN "TypeError"
    ELSE IF IdString(Populate(patients, patientRef)) # IdString(FindPatientByUser(caller))
    THEN "forbidden"
    ELSE "ok"

OwnedReadOwnerFirst(op, caller, id, coll, missing, denied) ==
    IF ~protect(caller)
    THEN Gated(op, caller)
    ELSE IF UserRole(caller) = "patient" /\ FindPatientByUser(caller) = NoId
    THEN Response(op, caller, id, NoRefs, 403, denied, TRUE)
    ELSE IF ~Found(coll, id)
    THEN Response(op, caller, id, NoRefs, 404, missing, TRUE)
    ELSE IF OwnerCheck(caller, coll[id].patientId) = "forbidden"
    THEN Response(op, caller, id, NoRefs, 403, denied, TRUE)
    ELSE IF OwnerCheck(caller, coll[id].patientId) = "TypeError"
    THEN Response(op, caller, id, NoRefs, errorHandler("TypeError"), "Server Error", TRUE)
    ELSE Response(op, caller, id, NoRefs, 200, None, TRUE)

(* the answer of an owner-restricted single-record read *)
OwnedRead(op, caller, id, coll, missing, denied) ==
    IF ~protect(caller)
    THEN Gated(op, caller)
    ELSE IF ~Found(coll, id)
    THEN Response(op, caller, id, NoRefs, 404, missing, TRUE)
    ELSE IF OwnerCheck(caller, coll[id].patientId) = "forbidden"
    THEN Response(op, caller, id, NoRefs, 403, denied, TRUE)
    ELSE IF OwnerCheck(caller, coll[id].patientId) = "TypeError"
    THEN Response(op, caller, id, NoRefs, errorHandler("TypeError"), "Server Error", TRUE)
    ELSE Response(op, caller, id, NoRefs, 200, None, TRUE)

----------------------------------------------------------------------------
(* /api/appointments (without the notification stub, POST /:id/notify) *)

AppointmentsPostRoles == {"admin", "reception", "patient"}
AppointmentsListRoles == {"admin", "reception", "doctor"}
AppointmentsByDoctorRoles == {"admin", "reception", "doctor"}
AppointmentsPutRoles == {"admin", "reception", "doctor"}
AppointmentsDeleteRoles == {"admin"}

AppointmentRefErrorDoctorOnly(patientId, doctorId) ==
    IF ~Found(Doctors, doctorId) THEN "Doctor not found" ELSE None

(* "Verify patient exists", "Verify doctor exists": the error of the first  *)
(* lookup that finds nothing                                                *)
AppointmentRefError(patientId, doctorId) ==
    IF ~Found(patients, patientId) THEN "Patient not found"
    ELSE IF ~Found(Doctors, doctorId) THEN "Doctor not found"
    ELSE None

PostAppointment(caller, patientId, doctorId) ==
    LET op == "POST /api/appointments"
        refs == <<patientId, doctorId>>
    IN  /\ Serve
        /\ IF ~Passes(caller, AppointmentsPostRoles)
           THEN /\ resp' = Gated(op, caller)
                /\ UNCHANGED appointments
           ELSE IF AppointmentRefError(patientId, doctorId) # None
           THEN /\ resp' = Response(op, caller, NoId, refs, 404,
                                    AppointmentRefError(patientId, doctorId), TRUE)
                /\ UNCHANGED appointments
           ELSE /\ Room(appointments)
                /\ appointments' = Append(appointments, AppointmentDoc(patientId, doctorId, caller))
                /\ resp' = Response(op, caller, Len(appointments) + 1, refs, 201, None, TRUE)
        /\ UNCHANGED <<patients, reports, bills, clock>>

(* GET /api/appointments/patient/:patientId, the condition of the 403 branch *)
PatientListDenied(caller, patientId) ==
    /\ UserRole(caller) = "patient"
    /\ \/ FindPatientByUser(caller) = NoId
       \/ IdString(FindPatientByUser(caller)) # IdString(patientId)

GetAppointmentsByPatient(caller, patientId) ==
    LET op == "GET /api/appointments/patient/:patientId"
    IN  /\ Serve
        /\ IF ~protect(caller)
           THEN resp' = Gated(op, caller)
           ELSE IF PatientListDenied(caller, patientId)
           THEN resp' = Response(op, caller, patientId, NoRefs, 403,
                                 "Not authorized to view these appointments", TRUE)
           ELSE resp' = Response(op, caller, patientId, NoRefs, 200, None, TRUE)
        /\ UNCHANGED <<store, clock>>

GetAppointment(caller, id) ==
    /\ Serve
    /\ resp' = OwnedRead("GET /api/appointments/:id", caller, id, appointments,
                         "Appointment not found", "Not authorized to view this appointment")
    /\ UNCHANGED <<store, clock>>

(* runValidators: the status enum of the Appointment schema.  The path is   *)
(* not required, and the enum validator passes null as it passes undefined. *)
ValidAppointmentUpdate(status) ==
    status = Absent \/ status[1] = Null \/ status[1] \in AppointmentStatuses

PutAppointment(caller, id, status, others) ==
    LET op == "PUT /api/appointments/:id"
        refs == <<status, others>>
    IN  /\ Serve
        /\ IF ~Passes(caller, AppointmentsPutRoles)
           THEN /\ resp' = Gated(op, caller)
                /\ UNCHANGED appointments
           ELSE IF ~Found(appointments, id)
           THEN /\ resp' = Response(op, caller, id, refs, 404, "Appointment not found", TRUE)
                /\ UNCHANGED appointments
           ELSE IF ~ValidAppointmentUpdate(status)
           THEN /\ resp' = Response(op, caller, id, refs, errorHandler("ValidationError"),
                                    "Validation failed", TRUE)
                /\ UNCHANGED appointments
           ELSE /\ appointments' =
                     [appointments EXCEPT
                        ![id] = Destructured([@ EXCEPT !.status = Merge(@, status)], others)]
                /\ resp' = Updated(Response(op, caller, id, refs, 200, None, TRUE),
                                    appointments[id])
        /\ UNCHANGED <<patients, reports, bills, clock>>

DeleteAppointment(caller, id) ==
    LET op == "DELETE /api/appointments/:id"
    IN  /\ Serve
        /\ IF ~Passes(caller, AppointmentsDeleteRoles)
           THEN /\ resp' = Gated(op, caller)
                /\ UNCHANGED appointments
           ELSE IF ~Found(appointments, id)
           THEN /\ resp' = Response(op, caller, id, NoRefs, 404, "Appointment not found", TRUE)
                /\ UNCHANGED appointments
           ELSE /\ appointments' = Remove(appointments, id, GoneAppointment)
                /\ resp' = Response(op, caller, id, NoRefs, 200, None, TRUE)
        /\ UNCHANGED <<patients, reports, bills, clock>>

----------------------------------------------------------------------------
(* /api/reports *)

ReportsPostRoles == {"admin", "doctor"}
ReportsListRoles == {"admin", "doctor"}
ReportsPutRoles == {"admin", "doctor"}
ReportsDeleteRoles == {"admin"}

ReportRefError(appointmentId, patientId, doctorId) ==
    IF ~Found(appointments, appointmentId) THEN "Appointment not found"
    ELSE IF ~Found(patients, patientId) THEN "Patient not found"
    ELSE IF ~Found(Doctors, doctorId) THEN "Doctor not found"
    ELSE None

PostReport(caller, appointmentId, patientId, doctorId) ==
    LET op == "POST /api/reports"
        refs == <<appointmentId, patientId, doctorId>>
    IN  /\ Serve
        /\ IF ~Passes(caller, ReportsPostRoles)
           THEN /\ resp' = Gated(op, caller)
                /\ UNCHANGED reports
           ELSE IF ReportRefError(appointmentId, patientId, doctorId) # None
           THEN /\ resp' = Response(op, caller, NoId, refs, 404,
                                    ReportRefError(appointmentId, patientId, doctorId), TRUE)
                /\ UNCHANGED reports
           ELSE /\ Room(reports)
                /\ reports' = Append(reports, ReportDoc(appointmentId, patientId, doctorId,
                                                         BodyDiagnosis, caller))
                /\ resp' = Response(op, caller, Len(reports) + 1, refs, 201, None, TRUE)
        /\ UNCHANGED <<patients, appointments, bills, clock>>

ReportReads == {"GET /api/reports/:id", "GET /api/reports/pdf/:id"}

GetReport(op, caller, id) ==
    /\ Serve
    /\ resp' = OwnedRead(op, caller, id, reports, "Report not found",
                         IF op = "GET /api/reports/:id"
                         THEN "Not authorized to view this report"
                         ELSE "Not authorized to download this report")
    /\ UNCHANGED <<store, clock>>

(* runValidators: diagnosis is required, and trimmed before it is checked *)
ValidReportUpdate(diagnosis) == diagnosis = Absent \/ diagnosis[1] # ""

(* PUT /api/reports/:id; of the fields it sets (diagnosis, prescription,    *)
(* labTests, notes) the diagnosis is the one modelled                       *)
PutReport(caller, id, diagnosis, others) ==
    LET op == "PUT /api/reports/:id"
        refs == <<diagnosis, others>>
    IN  /\ Serve
        /\ IF ~Passes(caller, ReportsPutRoles)
           THEN /\ resp' = Gated(op, caller)
                /\ UNCHANGED reports
           ELSE IF ~Found(reports, id)
           THEN /\ resp' = Response(op, caller, id, refs, 404, "Report not found", TRUE)
                /\ UNCHANGED reports
           ELSE IF ~ValidReportUpdate(diagnosis)
           THEN /\ resp' = Response(op, caller, id, refs, errorHandler("ValidationError"),
                                    "Validation failed", TRUE)
                /\ UNCHANGED reports
           ELSE /\ reports' =
                     [reports EXCEPT
                        ![id] = Destructured([@ EXCEPT !.diagnosis = Merge(@, diagnosis)],
                                             others)]
                /\ resp' = Updated(Response(op, caller, id, refs, 200, None, TRUE), reports[id])
        /\ UNCHANGED <<patients, appointments, bills, clock>>

DeleteReport(caller, id) ==
    LET op == "DELETE /api/reports/:id"
    IN  /\ Serve
        /\ IF ~Passes(caller, ReportsDeleteRoles)
           THEN /\ resp' = Gated(op, caller)
                /\ UNCHANGED reports
           ELSE IF ~Found(reports, id)
           THEN /\ resp' = Response(op, caller, id, NoRefs, 404, "Report not found", TRUE)
                /\ UNCHANGED reports
           ELSE /\ reports' = Remove(reports, id, GoneReport)
                /\ resp' = Response(op, caller, id, NoRefs, 200, None, TRUE)
        /\ UNCHANGED <<patients, appointments, bills, clock>>

----------------------------------------------------------------------------
(* /api/bills *)

BillsPostRoles == {"admin", "reception"}
BillsListRoles == {"admin", "reception"}
BillsPutRolesWithDoctor == {"admin", "reception", "doctor"}
BillsPutRoles == {"admin", "reception"}

Amounts == {100}

BillRefErrorPatientOnly(patientId, appointmentId) ==
    IF ~Found(patients, patientId) THEN "Patient not found" ELSE None

(* "Verify appointment exists (if provided)" *)
BillRefError(patientId, appointmentId) ==
    IF ~Found(patients, patientId) THEN "Patient not found"
    ELSE IF appointmentId # NoId /\ ~Found(appointments, appointmentId)
    THEN "Appointment not found"
    ELSE None

PostBill(caller, patientId, appointmentId, totalAmount) ==
    LET op == "POST /api/bills"
        refs == <<patientId, appointmentId, totalAmount>>
    IN  /\ Serve
        /\ IF ~Passes(caller, BillsPostRoles)
           THEN /\ resp' = Gated(op, caller)
                /\ UNCHANGED bills
           ELSE IF BillRefError(patientId, appointmentId) # None
           THEN /\ resp' = Response(op, caller, NoId, refs, 404,
                                    BillRefError(patientId, appointmentId), TRUE)
                /\ UNCHANGED bills
           ELSE /\ Room(bills)
                /\ bills' = Append(bills, BillDoc(patientId, appointmentId, totalAmount,
                                                     caller))
                /\ resp' = Response(op, caller, Len(bills) + 1, refs, 201, None, TRUE)
        /\ UNCHANGED <<patients, appointments, reports, clock>>

BillReads == {"GET /api/bills/:id", "GET /api/bills/pdf/:id"}

GetBill(op, caller, id) ==
    /\ Serve
    /\ resp' = OwnedRead(op, caller, id, bills, "Bill not found",
                         IF op = "GET /api/bills/:id"
                         THEN "Not authorized to view this bill"
                         ELSE "Not authorized to download this bill")
    /\ UNCHANGED <<store, clock>>

StampsFromPendingOnly(paymentStatus, bill) ==
    paymentStatus = Given("paid") /\ bill.paymentStatus = "pending"

StampsWheneverPaid(paymentStatus, bill) == paymentStatus = Given("paid")

StampsOnAnyStatus(paymentStatus, bill) == paymentStatus # Absent

(* "If payment status is being changed to 'paid', set paidAt timestamp" *)
StampsPaidAt(paymentStatus, bill) ==
    paymentStatus = Given("paid") /\ bill.paymentStatus # "paid"

UpdatedBillDroppingAmount(bill, totalAmount, paymentStatus, now) ==
    [bill EXCEPT !.totalAmount = IF totalAmount = Absent THEN 0 ELSE totalAmount[1],
                 !.paymentStatus = Merge(@, paymentStatus),
                 !.paidAt = IF StampsPaidAt(paymentStatus, bill) THEN now ELSE @]

UpdatedBillClearing(bill, totalAmount, paymentStatus, now) ==
    [bill EXCEPT !.totalAmount = Merge(@, totalAmount),
                 !.paymentStatus = Merge(@, paymentStatus),
                 !.paidAt = IF StampsPaidAt(paymentStatus, bill) THEN now
                            ELSE IF Merge(bill.paymentStatus, paymentStatus) # "paid"
                            THEN NoDate ELSE @]

(* updateData, applied by findByIdAndUpdate to the stored bill *)
UpdatedBill(bill, totalAmount, paymentStatus, now) ==
    [bill EXCEPT !.totalAmount = Merge(@, totalAmount),
                 !.paymentStatus = Merge(@, paymentStatus),
                 !.paidAt = IF StampsPaidAt(paymentStatus, bill) THEN now ELSE @]

(* runValidators: the paymentStatus enum and min 0 of the Bill schema *)
ValidBillUpdate(totalAmount, paymentStatus) ==
    /\ paymentStatus = Absent \/ paymentStatus[1] \in PaymentStatuses
    /\ totalAmount = Absent \/ totalAmount[1] >= 0

(* the update runs at time `now`, no earlier than the one before it *)
PutBill(caller, id, totalAmount, paymentStatus, others, now) ==
    LET op == "PUT /api/bills/:id"
        refs == <<totalAmount, paymentStatus, others>>
    IN  /\ Serve
        /\ now >= clock
        /\ IF ~Passes(caller, BillsPutRoles)
           THEN /\ resp' = Gated(op, caller)
                /\ UNCHANGED <<bills, clock>>
           ELSE IF ~Found(bills, id)
           THEN /\ resp' = Response(op, caller, id, refs, 404, "Bill not found", TRUE)
                /\ UNCHANGED <<bills, clock>>
           ELSE IF ~ValidBillUpdate(totalAmount, paymentStatus)
           THEN /\ resp' = Response(op, caller, id, refs, errorHandler("ValidationError"),
                                    "Validation failed", TRUE)
                /\ clock' = now
                /\ UNCHANGED bills
           ELSE /\ bills' =
                     [bills EXCEPT
                        ![id] = Destructured(UpdatedBill(@, totalAmount, paymentStatus, now),
                                             others)]
                /\ clock' = now
                /\ resp' = Updated(Response(op, caller, id, refs, 200, None, TRUE), bills[id])
        /\ UNCHANGED <<patients, appointments, reports>>

----------------------------------------------------------------------------
(* /api/admin: router.use(protect, authorize('admin')) in front of reads *)

AdminRoles == {"admin"}

AdminCollections == {"patients", "appointments", "reports", "bills"}

AdminColl(name) ==
    CASE name = "patients" -> patients
      [] name = "appointments" -> appointments
      [] name = "reports" -> reports
      [] OTHER -> bills

(* Model.countDocuments() *)
CountDocuments(coll) == Cardinality({i \in 1..Len(coll) : coll[i].live})

RECURSIVE SumAmounts(_)
(* { $sum: '$totalAmount' } over the bills of a group *)
SumAmounts(ids) ==
    IF ids = {} THEN 0
    ELSE LET i == CHOOSE j \in ids : TRUE
         IN  bills[i].totalAmount + SumAmounts(ids \ {i})

(* Bill.aggregate([{ $group: { _id: '$paymentStatus', total, count } }]):   *)
(* one group for each payment status some bill has                         *)
RevenueStats ==
    LET live == {i \in 1..Len(bills) : bills[i].live}
        Group(st) == {i \in live : bills[i].paymentStatus = st}
    IN  [st \in {bills[i].paymentStatus : i \in live} |->
            [total |-> SumAmounts(Group(st)), count |-> Cardinality(Group(st))]]

StatTotalWithFailed(stats, id) ==
    (IF id \in DOMAIN stats THEN stats[id].total ELSE 0)
        + (IF "failed" \in DOMAIN stats THEN stats["failed"].total ELSE 0)

(* revenueStats.forEach: the total of the group of one status, 0 without it *)
StatTotal(stats, id) == IF id \in DOMAIN stats THEN stats[id].total ELSE 0

(* data.overview, but for recentAppointments *)
Overview ==
    [totalPatients |-> CountDocuments(patients),
     totalDoctors |-> CountDocuments(Doctors),
     totalAppointments |-> CountDocuments(appointments),
     totalReports |-> CountDocuments(reports),
     totalBills |-> CountDocuments(bills),
     totalRevenue |-> StatTotal(RevenueStats, "paid"),
     pendingAmount |-> StatTotal(RevenueStats, "pending")]

Analysed(op, caller, overview) ==
    [op |-> op, caller |-> caller, id |-> NoId, refs |-> NoRefs, status |-> 200,
     error |-> None, handler |-> TRUE, was |-> <<>>, overview |-> overview]

AdminAnalytics(caller) ==
    LET op == "GET /api/admin/analytics"
    IN  /\ Serve
        /\ IF ~Passes(caller, AdminRoles)
           THEN resp' = Gated(op, caller)
           ELSE resp' = Analysed(op, caller, Overview)
        /\ UNCHANGED <<store, clock>>

AdminList(caller, name) ==
    LET op == "GET /api/admin/:collection"
        refs == <<name>>
    IN  /\ Serve
        /\ IF ~Passes(caller, AdminRoles)
           THEN resp' = Gated(op, caller)
           ELSE resp' = Response(op, caller, NoId, refs, 200, None, TRUE)
        /\ UNCHANGED <<store, clock>>

AdminGetOne(caller, name, id) ==
    LET op == "GET /api/admin/:collection/:id"
        refs == <<name>>
    IN  /\ Serve
        /\ IF ~Passes(caller, AdminRoles)
           THEN resp' = Gated(op, caller)
           ELSE IF ~Found(AdminColl(name), id)
           THEN resp' = Response(op, caller, id, refs, 404, "Not found", TRUE)
           ELSE resp' = Response(op, caller, id, refs, 200, None, TRUE)
        /\ UNCHANGED <<store, clock>>

----------------------------------------------------------------------------
(* the response is sent; the next request can be taken *)
Close ==
    /\ resp # Idle
    /\ resp' = Idle
    /\ UNCHANGED <<store, clock, flight>>

Init ==
    /\ patients = <<>>
    /\ appointments = <<>>
    /\ reports = <<>>
    /\ bills = <<>>
    /\ clock = 1
    /\ resp = Idle
    /\ flight = NoFlight

LinkedUsers == {None, "pat1"}

(* the callers a create that stamps createdBy is tried by: every caller    *)
(* its gates refuse, and the one user given of those they let through       *)
Creators(roles, user) == {c \in Callers : ~Passes(c, roles)} \cup {user}

Next ==
    \/ \E c \in Callers, ph \in Phones, u \in LinkedUsers : PostPatient(c, ph, u)
    \/ \E c \in Callers, id \in PatientIds : GetPatient(c, id)
    \/ \E c \in Callers, id \in PatientIds, ph \in Phones \cup {None} :
          PutPatient(c, id, IF ph = None THEN Absent ELSE Given(ph))
    \/ \E c \in Callers, id \in PatientIds : DeletePatient(c, id)
    \/ \E c \in Creators(AppointmentsPostRoles, "recep1"), p \in PatientIds, d \in DoctorIds :
          PostAppointment(c, p, d)
    \/ \E c \in Callers, p \in PatientIds : GetAppointmentsByPatient(c, p)
    \/ \E c \in Callers, id \in AppointmentIds : GetAppointment(c, id)
    \/ \E c \in Callers, id \in AppointmentIds, st \in {None, "approved", "done"} :
          PutAppointment(c, id, IF st = None THEN Absent ELSE Given(st), NoOthers)
    \/ \E c \in Callers, id \in AppointmentIds : DeleteAppointment(c, id)
    \/ \E c \in Creators(ReportsPostRoles, "doc1"), a \in AppointmentIds, p \in PatientIds,
          d \in DoctorIds : PostReport(c, a, p, d)
    \/ \E op \in ReportReads, c \in Callers, id \in ReportIds : GetReport(op, c, id)
    \/ \E c \in Callers, id \in ReportIds : PutReport(c, id, Absent, NoOthers)
    \/ \E c \in Callers, id \in ReportIds : DeleteReport(c, id)
    \/ \E c \in Creators(BillsPostRoles, "recep1"), p \in PatientIds,
          a \in AppointmentIds \cup {NoId}, t \in Amounts : PostBill(c, p, a, t)
    \/ \E op \in BillReads, c \in Callers, id \in BillIds : GetBill(op, c, id)
    \/ \E c \in Callers, id \in BillIds, st \in {None, "paid", "refunded"} :
          PutBill(c, id, Absent, IF st = None THEN Absent ELSE Given(st), NoOthers, clock)
    \/ \E c \in Callers : Listing("GET /api/patients", PatientsListRoles, c)
    \/ \E c \in Callers : Listing("GET /api/patients/search", PatientsSearchRoles, c)
    \/ \E c \in Callers : Listing("GET /api/appointments", AppointmentsListRoles, c)
    \/ \E c \in Callers :
          Listing("GET /api/appointments/doctor/:doctorId", AppointmentsByDoctorRoles, c)
    \/ \E c \in Callers : Listing("GET /api/reports", ReportsListRoles, c)
    \/ \E c \in Callers : Listing("GET /api/bills", BillsListRoles, c)
    \/ \E c \in Callers : AdminAnalytics(c)
    \/ \E c \in Callers, n \in AdminCollections : AdminList(c, n)
    \/ \E c \in Callers, n \in AdminCollections : \E id \in 1..(Len(AdminColl(n)) + 1) : AdminGetOne(c, n, id)
    \/ Close

Spec == Init /\ [][Next]_vars

(* The life of bills: every payment status an update can carry, at every   *)
(* time, over the patients and bills the staff create.                     *)
BillCallers == {"recep1", "doc1"}

NextBills ==
    \/ PostPatient("recep1", "9876543210", None)
    \/ \E c \in BillCallers, p \in PatientIds, t \in Amounts : PostBill(c, p, NoId, t)
    \/ \E c \in BillCallers, id \in BillIds,
          st \in PaymentStatuses \cup {None, "refunded"}, now \in clock..MaxClock :
          PutBill(c, id, Absent, IF st = None THEN Absent ELSE Given(st), NoOthers, now)
    \/ Close

SpecBills == Init /\ [][NextBills]_vars

(* The updates: every field an update can carry, given or left out, valid   *)
(* or not, over the records the staff create, and the dashboard over them. *)
BillAmounts == {100, 250}
AmountUpdates == {Absent, Given(250), Given(-5)}
StatusUpdates == {Absent} \cup {Given(st) : st \in AppointmentStatuses \cup {"done", Null}}
PaymentUpdates == {Absent} \cup {Given(st) : st \in PaymentStatuses \cup {"refunded"}}
DiagnosisUpdates == {Absent} \cup {Given(d) : d \in Diagnoses}
PhoneUpdates == {Absent} \cup {Given(ph) : ph \in Phones}
(* a body with no other key, and one that names another patient, doctor,   *)
(* appointment and creator                                                  *)
OtherKeys ==
    {NoOthers,
     [patientId |-> 2, doctorId |-> 2, appointmentId |-> 2, createdBy |-> "pat1"]}

NextUpdates ==
    \/ \E ph \in Phones : PostPatient("recep1", ph, None)
    \/ \E c \in {"recep1", "pat1"} : PostAppointment(c, 1, 1)
    \/ PostReport("doc1", 1, 1, 1)
    \/ \E t \in BillAmounts : PostBill("admin1", 1, NoId, t)
    \/ \E id \in PatientIds, ph \in PhoneUpdates : PutPatient("recep1", id, ph)
    \/ \E id \in AppointmentIds, st \in StatusUpdates, o \in OtherKeys :
          PutAppointment("recep1", id, st, o)
    \/ \E id \in ReportIds, d \in DiagnosisUpdates, o \in OtherKeys :
          PutReport("admin1", id, d, o)
    \/ \E id \in BillIds, t \in AmountUpdates, st \in PaymentUpdates, o \in OtherKeys :
          PutBill("recep1", id, t, st, o, clock)
    \/ AdminAnalytics("admin1")
    \/ Close

SpecUpdates == Init /\ [][NextUpdates]_vars

----------------------------------------------------------------------------
(* Properties *)

(* a request was handled in this step *)
Handled == resp = Idle /\ resp' # Idle

RoleOf(r) == UserRole(r.caller)

(* the endpoints declared with an allow-list, and the roles their @access   *)
(* lines and the endpoint table give them                                   *)
AccessTable(op) ==
    CASE op = "POST /api/patients" -> {"admin", "reception"}
      [] op = "GET /api/patients" -> {"admin", "reception", "doctor"}
      [] op = "GET /api/patients/search" -> {"admin", "reception", "doctor"}
      [] op = "PUT /api/patients/:id" -> {"admin", "reception"}
      [] op = "DELETE /api/patients/:id" -> {"admin"}
      [] op = "POST /api/appointments" -> {"admin", "reception", "patient"}
      [] op = "GET /api/appointments" -> {"admin", "reception", "doctor"}
      [] op = "GET /api/appointments/doctor/:doctorId" -> {"admin", "reception", "doctor"}
      [] op = "PUT /api/appointments/:id" -> {"admin", "reception", "doctor"}
      [] op = "DELETE /api/appointments/:id" -> {"admin"}
      [] op = "POST /api/reports" -> {"admin", "doctor"}
      [] op = "GET /api/reports" -> {"admin", "doctor"}
      [] op = "PUT /api/reports/:id" -> {"admin", "doctor"}
      [] op = "DELETE /api/reports/:id" -> {"admin"}
      [] op = "POST /api/bills" -> {"admin", "reception"}
      [] op = "GET /api/bills" -> {"admin", "reception"}
      [] op = "PUT /api/bills/:id" -> {"admin", "reception"}
      [] op = "GET /api/admin/analytics" -> {"admin"}
      [] op = "GET /api/admin/:collection" -> {"admin"}
      [] op = "GET /api/admin/:collection/:id" -> {"admin"}
      [] OTHER -> Roles

(* C1: on every endpoint declared with an allow-list, a request of an       *)
(* authenticated caller whose role is outside the list is answered 403, the *)
(* handler body is not entered, and the store is the same after as before.  *)
C1_RoleOutsideAllowList ==
    [][(Handled /\ resp'.caller \in Users /\ RoleOf(resp') \notin AccessTable(resp'.op))
         => (resp'.status = 403 /\ ~resp'.handler /\ store' = store)]_vars

C1_DoctorRefusedBillUpdate ==
    /\ resp.op = "PUT /api/bills/:id"
    /\ resp.caller = "doc1"
    /\ resp.status = 403
    /\ Found(bills, 1)

(* the collection an owner-restricted single-record read looks in *)
ReadColl(op) ==
    CASE op = "GET /api/appointments/:id" -> appointments
      [] op \in ReportReads -> reports
      [] OTHER -> bills

OwnerReads == {"GET /api/appointments/:id"} \cup ReportReads \cup BillReads

(* the caller's linked Patient record is the one the record refers to *)
Owns(caller, patientId) ==
    FindPatientByUser(caller) # NoId /\ FindPatientByUser(caller) = patientId

(* C2: on the owner-restricted reads a patient-role caller gets 403 when    *)
(* their linked Patient record differs from the record's patient reference  *)
(* or when they have none, and 200 when it is the record's patient.         *)
C2_OwnerRestrictedReads ==
    (resp # Idle /\ RoleOf(resp) = "patient") =>
        /\ (resp.op \in OwnerReads /\ Found(ReadColl(resp.op), resp.id)) =>
              resp.status = IF Owns(resp.caller, ReadColl(resp.op)[resp.id].patientId)
                            THEN 200 ELSE 403
        /\ resp.op = "GET /api/appointments/patient/:patientId" =>
              resp.status = IF Owns(resp.caller, resp.id) THEN 200 ELSE 403

(* C3: GET /api/bills/:id succeeds only for admin, reception or the owning  *)
(* patient, and GET /api/reports/:id only for admin, doctor or the owning   *)
(* patient; the other staff role gets 403.                                  *)
C3_SingleReadRoles ==
    /\ (resp.op = "GET /api/bills/:id" /\ Found(bills, resp.id)) =>
          /\ resp.status = 200 =>
                \/ RoleOf(resp) \in {"admin", "reception"}
                \/ RoleOf(resp) = "patient" /\ Owns(resp.caller, bills[resp.id].patientId)
          /\ RoleOf(resp) = "doctor" => resp.status = 403
    /\ (resp.op = "GET /api/reports/:id" /\ Found(reports, resp.id)) =>
          /\ resp.status = 200 =>
                \/ RoleOf(resp) \in {"admin", "doctor"}
                \/ RoleOf(resp) = "patient" /\ Owns(resp.caller, reports[resp.id].patientId)
          /\ RoleOf(resp) = "reception" => resp.status = 403

(* C4: GET /api/patients/:id by a patient-role caller answers 200 only for  *)
(* the Patient record whose userId is the caller, and 403 for every other   *)
(* existing record, one without userId included.                            *)
C4_PatientReadsOwnRecordOnly ==
    (resp.op = "GET /api/patients/:id" /\ RoleOf(resp) = "patient"
        /\ Found(patients, resp.id)) =>
        /\ resp.status = 200 => patients[resp.id].userId = resp.caller
        /\ patients[resp.id].userId # resp.caller => resp.status = 403

(* the "<type> not found" errors of the referenced ids that are missing *)
MissingErrors(patientId, doctorId, appointmentId) ==
    (IF patientId # NoId /\ ~Found(patients, patientId) THEN {"Patient not found"} ELSE {})
    \cup (IF doctorId # NoId /\ ~Found(Doctors, doctorId) THEN {"Doctor not found"} ELSE {})
    \cup (IF appointmentId # NoId /\ ~Found(appointments, appointmentId)
          THEN {"Appointment not found"} ELSE {})

Refused404(errors) ==
    errors # {} => (resp'.status = 404 /\ resp'.error \in errors /\ store' = store)

(* C5: a create of an appointment, report or bill that names a missing      *)
(* patient, doctor or appointment is answered 404 with the error of a       *)
(* missing type and stores nothing; a bill without appointmentId is created *)
(* with no appointment looked up.                                           *)
C5_MissingReference ==
    [][(Handled /\ resp'.handler) =>
         /\ resp'.op = "POST /api/appointments" =>
               Refused404(MissingErrors(resp'.refs[1], resp'.refs[2], NoId))
         /\ resp'.op = "POST /api/reports" =>
               Refused404(MissingErrors(resp'.refs[2], resp'.refs[3], resp'.refs[1]))
         /\ resp'.op = "POST /api/bills" =>
               /\ Refused404(MissingErrors(resp'.refs[1], NoId, resp'.refs[2]))
               /\ (resp'.refs[2] = NoId /\ Found(patients, resp'.refs[1])) =>
                     /\ resp'.status = 201
                     /\ bills' = Append(bills, BillDoc(resp'.refs[1], NoId, resp'.refs[3], resp'.caller))]_vars

C5_ReportOfMissingPatientRefused ==
    /\ resp.op = "POST /api/reports"
    /\ resp.status = 404
    /\ resp.error = "Patient not found"
    /\ reports = <<>>

(* a bill update that was answered 200 *)
BillUpdated == resp.op = "PUT /api/bills/:id" /\ resp.status = 200

(* C6: a successful update with paymentStatus "paid" of a bill stored as    *)
(* "pending" or "failed" leaves it "paid" with paidAt set, to the time of   *)
(* that update.                                                             *)
C6_PaidStampsPaidAt ==
    (BillUpdated /\ resp.refs[2] = Given("paid")
        /\ resp.was[1].paymentStatus \in {"pending", "failed"}) =>
        /\ bills[resp.id].paymentStatus = "paid"
        /\ bills[resp.id].paidAt # NoDate
        /\ bills[resp.id].paidAt = clock

C6_FailedBillPaid ==
    /\ BillUpdated
    /\ resp.refs[2] = Given("paid")
    /\ resp.was[1].paymentStatus = "failed"
    /\ bills[resp.id].paidAt = clock

(* C7: an update with paymentStatus "paid" of a bill already stored as      *)
(* "paid" leaves paidAt as it was.                                          *)
C7_PaidToPaidKeepsPaidAt ==
    (BillUpdated /\ resp.refs[2] = Given("paid") /\ resp.was[1].paymentStatus = "paid") =>
        bills[resp.id].paidAt = resp.was[1].paidAt

C7_PaidAgainLater ==
    /\ BillUpdated
    /\ resp.refs[2] = Given("paid")
    /\ resp.was[1].paymentStatus = "paid"
    /\ bills[resp.id].paidAt < clock

(* C8: an update from "paid" to "pending" or "failed" leaves the stamped    *)
(* paidAt as it was, not cleared.                                           *)
C8_RevertKeepsPaidAt ==
    (BillUpdated /\ resp.refs[2] \in {Given("pending"), Given("failed")}
        /\ resp.was[1].paymentStatus = "paid") =>
        /\ bills[resp.id].paymentStatus = resp.refs[2][1]
        /\ bills[resp.id].paidAt = resp.was[1].paidAt
        /\ bills[resp.id].paidAt # NoDate

C8_PaidBillReverted ==
    /\ BillUpdated
    /\ resp.refs[2] = Given("pending")
    /\ resp.was[1].paymentStatus = "paid"
    /\ bills[resp.id].paidAt # NoDate

(* C9, as claimed: over the life of a bill paidAt is written at most once,  *)
(* once it is set its value never changes.                                  *)
C9_PaidAtWrittenOnce ==
    [][\A i \in 1..Len(bills) :
          bills[i].paidAt # NoDate => bills'[i].paidAt = bills[i].paidAt]_vars

(* C9, amended: paidAt is written by exactly the updates that carry         *)
(* paymentStatus "paid" to a bill not stored as "paid", each setting it to  *)
(* the time of that update (paid, pending, paid stamps twice); no other     *)
(* request changes it and it is never cleared.                              *)
C9_StampedOnEachTransition ==
    [][\A i \in 1..Len(bills) :
          bills'[i].paidAt # bills[i].paidAt =>
              /\ Handled
              /\ resp'.op = "PUT /api/bills/:id" /\ resp'.status = 200 /\ resp'.id = i
              /\ resp'.refs[2] = Given("paid")
              /\ bills[i].paymentStatus # "paid"
              /\ bills'[i].paidAt = clock'
              /\ bills'[i].paidAt # NoDate]_vars

C9_Restamped ==
    /\ BillUpdated
    /\ resp.was[1].paidAt # NoDate
    /\ bills[resp.id].paidAt # resp.was[1].paidAt

(* live patients with a phone *)
WithPhone(coll, phone) == {i \in 1..Len(coll) : coll[i].live /\ coll[i].phone = phone}

(* C10: a POST /api/patients with the phone of an existing patient is       *)
(* answered 400 and the patients with that phone stay one; a PUT changing a *)
(* patient's phone to that of another patient is answered 400 and changes   *)
(* nothing.                                                                 *)
C10_DuplicatePhoneRefused ==
    [][(Handled /\ resp'.handler) =>
         /\ (resp'.op = "POST /api/patients" /\ WithPhone(patients, resp'.refs[1]) # {}) =>
               /\ resp'.status = 400
               /\ Cardinality(WithPhone(patients', resp'.refs[1])) = 1
               /\ store' = store
         /\ (resp'.op = "PUT /api/patients/:id" /\ Found(patients, resp'.id)
               /\ resp'.refs[1] # Absent
               /\ WithPhone(patients, resp'.refs[1][1]) \ {resp'.id} # {}) =>
               /\ resp'.status = 400
               /\ store' = store]_vars

C10_PhoneChangeRefused ==
    /\ resp.op = "PUT /api/patients/:id"
    /\ resp.status = 400
    /\ Cardinality({i \in 1..Len(patients) : patients[i].live}) = 2

----------------------------------------------------------------------------
(* Requests in flight.  A handler awaits the store between its queries, and *)
(* the queries of other requests run in between: here each query of a       *)
(* handler is a step of its own, and the request waits in a slot.           *)

InFlight(s, op, pc) == flight[s] # Free /\ flight[s].op = op /\ flight[s].pc = pc

Park(s, r) == flight' = [flight EXCEPT ![s] = r]
Leave(s) == flight' = [flight EXCEPT ![s] = Free]

(* POST /api/patients: Patient.findOne({ phone }) *)
PostPatientFind(s, caller, phone, userId) ==
    LET op == "POST /api/patients"
        refs == <<phone, userId>>
    IN  /\ resp = Idle
        /\ flight[s] = Free
        /\ IF ~Passes(caller, PatientsPostRoles)
           THEN /\ resp' = Gated(op, caller)
                /\ UNCHANGED flight
           ELSE IF FindPatientByPhone(phone) # NoId
           THEN /\ resp' = Response(op, caller, NoId, refs, 400,
                                    "Patient with this phone number already exists", TRUE)
                /\ UNCHANGED flight
           ELSE /\ Park(s, [op |-> op, pc |-> "create", caller |-> caller,
                            phone |-> phone, userId |-> userId])
                /\ UNCHANGED resp
        /\ UNCHANGED <<store, clock>>

(* POST /api/patients: Patient.create, after the phone was found free *)
PostPatientCreate(s) ==
    LET op == "POST /api/patients"
        r == flight[s]
    IN  /\ resp = Idle
        /\ InFlight(s, op, "create")
        /\ Room(patients)
        /\ patients' = Append(patients, PatientDoc(r.phone, r.userId))
        /\ resp' = Response(op, r.caller, Len(patients) + 1, <<r.phone, r.userId>>,
                            201, None, TRUE)
        /\ Leave(s)
        /\ UNCHANGED <<appointments, reports, bills, clock>>

(* "if (phone && phone !== patient.phone)" *)
PhoneChanges(phone, doc) == phone # Absent /\ phone[1] # doc.phone

(* PUT /api/patients/:id: Patient.findById *)
PutPatientFind(s, caller, id, phone) ==
    LET op == "PUT /api/patients/:id"
        refs == <<phone>>
    IN  /\ resp = Idle
        /\ flight[s] = Free
        /\ IF ~Passes(caller, PatientsPutRoles)
           THEN /\ resp' = Gated(op, caller)
                /\ UNCHANGED flight
           ELSE IF ~Found(patients, id)
           THEN /\ resp' = Response(op, caller, id, refs, 404, "Patient not found", TRUE)
                /\ UNCHANGED flight
           ELSE /\ Park(s, [op |-> op,
                            pc |-> IF PhoneChanges(phone, patients[id])
                                   THEN "findOne" ELSE "update",
                            caller |-> caller, id |-> id, phone |-> phone,
                            was |-> patients[id]])
                /\ UNCHANGED resp
        /\ UNCHANGED <<store, clock>>

(* PUT /api/patients/:id: Patient.findOne({ phone }) of the new phone *)
PutPatientFindOne(s) ==
    LET op == "PUT /api/patients/:id"
        r == flight[s]
    IN  /\ resp = Idle
        /\ InFlight(s, op, "findOne")
        /\ IF FindPatientByPhone(r.phone[1]) # NoId
           THEN /\ resp' = Response(op, r.caller, r.id, <<r.phone>>, 400,
                                    "Patient with this phone number already exists", TRUE)
                /\ Leave(s)
           ELSE /\ Park(s, [r EXCEPT !.pc = "update"])
                /\ UNCHANGED resp
        /\ UNCHANGED <<store, clock>>

(* PUT /api/patients/:id: Patient.findByIdAndUpdate, which updates nothing *)
(* and gives null when the document is gone by now                         *)
PutPatientUpdate(s) ==
    LET op == "PUT /api/patients/:id"
        r == flight[s]
    IN  /\ resp = Idle
        /\ InFlight(s, op, "update")
        /\ IF Found(patients, r.id)
           THEN patients' = [patients EXCEPT ![r.id].phone = Merge(@, r.phone)]
           ELSE UNCHANGED patients
        /\ resp' = Updated(Response(op, r.caller, r.id, <<r.phone>>, 200, None, TRUE), r.was)
        /\ Leave(s)
        /\ UNCHANGED <<appointments, reports, bills, clock>>

(* Creates and phone changes of patients by the reception, in any          *)
(* interleaving of their queries.                                           *)
NextPhones ==
    \/ \E s \in Slots, ph \in Phones : PostPatientFind(s, "recep1", ph, None)
    \/ \E s \in Slots : PostPatientCreate(s)
    \/ \E s \in Slots, id \in PatientIds, ph \in Phones :
          PutPatientFind(s, "recep1", id, Given(ph))
    \/ \E s \in Slots : PutPatientFindOne(s)
    \/ \E s \in Slots : PutPatientUpdate(s)
    \/ Close

SpecPhones == Init /\ [][NextPhones]_vars

(* C11: under any interleaving of concurrent POST /api/patients and PUT     *)
(* /api/patients/:id requests, no two Patient records have the same phone.  *)
C11_PhonesUnique ==
    \A i, j \in 1..Len(patients) :
        (i # j /\ patients[i].live /\ patients[j].live) =>
            patients[i].phone # patients[j].phone

----------------------------------------------------------------------------
(* The paginated listings: GET /api/patients, /api/appointments,            *)
(* /api/reports, /api/bills and the /api/admin list routes.  Each query of  *)
(* the handler sees the same store here.                                    *)

(* parseInt of a query string *)
ParseInt(str) ==
    CASE str = "-1" -> 0 - 1
      [] str = "0" -> 0
      [] str = "1" -> 1
      [] str = "2" -> 2
      [] str = "3" -> 3
      [] OTHER -> 10

(* "const { page = 1, limit = 10 } = req.query", then parseInt *)
DefaultPage == 1
DefaultLimit == 10
PageNum(page) == IF page = Absent THEN DefaultPage ELSE ParseInt(page[1])
LimitNum(limit) == IF limit = Absent THEN DefaultLimit ELSE ParseInt(limit[1])

(* "order === 'desc' ? -1 : 1", order defaulting to 'desc' *)
SortOrder(order) == IF order = Absent \/ order = Given("desc") THEN 0 - 1 ELSE 1

(* .sort({ createdAt: sortOrder }): documents are created in the order of   *)
(* their ids                                                                *)
RECURSIVE Sort(_, _)
Sort(ids, sortOrder) ==
    IF ids = {} THEN <<>>
    ELSE LET first == IF sortOrder = 1
                      THEN CHOOSE i \in ids : \A j \in ids : i <= j
                      ELSE CHOOSE i \in ids : \A j \in ids : i >= j
         IN  <<first>> \o Sort(ids \ {first}, sortOrder)

Abs(n) == IF n < 0 THEN 0 - n ELSE n

(* .skip(skip).limit(limit) of the store: a limit of 0 is no limit, and a   *)
(* negative limit gives the first -limit documents                          *)
Window(sorted, skip, limit) ==
    LET rest == SubSeq(sorted, skip + 1, Len(sorted))
        n == IF limit = 0 \/ Abs(limit) > Len(rest) THEN Len(rest) ELSE Abs(limit)
    IN  SubSeq(rest, 1, n)

(* Math.ceil(total / limit), for a limit other than 0 *)
Ceil(total, limit) ==
    IF limit > 0 THEN (total + limit - 1) \div limit
    ELSE 0 - (total \div (0 - limit))

(* pages as JSON carries it: total / 0 is Infinity or NaN, written as null *)
Pages(total, limit) == IF limit = 0 THEN Absent ELSE Given(Ceil(total, limit))

(* Doctor.findOne({ userId: req.user.id }) *)
FindDoctorByUser(u) ==
    LET hits == {i \in 1..Len(Doctors) : Doctors[i].live /\ Doctors[i].userId = u}
    IN  IF hits = {} THEN NoId ELSE CHOOSE i \in hits : \A j \in hits : i <= j

DoctorScopeNone(caller, doc) == TRUE

(* "If doctor, only show their appointments": query.doctorId is set when    *)
(* the caller is a doctor and a Doctor record of theirs is found            *)
DoctorScope(caller, doc) ==
    (UserRole(caller) = "doctor" /\ FindDoctorByUser(caller) # NoId)
        => doc.doctorId = FindDoctorByUser(caller)

PagedOps == {"GET /api/patients", "GET /api/appointments", "GET /api/reports",
             "GET /api/bills", "GET /api/admin/:collection"}

(* the collection a listing reads *)
ListColl(op, name) ==
    CASE op = "GET /api/patients" -> patients
      [] op = "GET /api/appointments" -> appointments
      [] op = "GET /api/reports" -> reports
      [] op = "GET /api/bills" -> bills
      [] OTHER -> AdminColl(name)

(* the query a listing builds from its filter and its caller: the ids of    *)
(* the documents it matches                                                 *)
Matching(op, caller, name, filter) ==
    LET coll == ListColl(op, name)
    IN  {i \in 1..Len(coll) :
            /\ coll[i].live
            /\ (op = "GET /api/appointments" /\ filter # Absent) =>
                  coll[i].status = filter[1]
            /\ (op = "GET /api/bills" /\ filter # Absent) =>
                  coll[i].paymentStatus = filter[1]
            /\ op \in {"GET /api/appointments", "GET /api/reports"} =>
                  DoctorScope(caller, coll[i])}

(* the response of a listing: the page of records and the summary *)
Listed(op, caller, refs, data, pagination) ==
    [op |-> op, caller |-> caller, id |-> NoId, refs |-> refs, status |-> 200,
     error |-> None, handler |-> TRUE, was |-> <<>>,
     data |-> data, pagination |-> pagination]

(* a negative skip is refused by the store, and the error goes to next() *)
PageResponse(op, caller, name, filter, page, limit, order) ==
    LET refs == <<name, filter, page, limit, order>>
        pageNum == PageNum(page)
        limitNum == LimitNum(limit)
        skip == (pageNum - 1) * limitNum
        ids == Matching(op, caller, name, filter)
    IN  IF skip < 0
        THEN Response(op, caller, NoId, refs, errorHandler("MongoServerError"),
                      "Server Error", TRUE)
        ELSE Listed(op, caller, refs,
                    Window(Sort(ids, SortOrder(order)), skip, limitNum),
                    [page |-> pageNum, limit |-> limitNum, total |-> Cardinality(ids),
                     pages |-> Pages(Cardinality(ids), limitNum)])

ListRoles(op) ==
    CASE op = "GET /api/patients" -> PatientsListRoles
      [] op = "GET /api/appointments" -> AppointmentsListRoles
      [] op = "GET /api/reports" -> ReportsListRoles
      [] op = "GET /api/bills" -> BillsListRoles
      [] OTHER -> AdminRoles

(* a listing route: the gates, the query, the page and the count *)
Page(op, caller, name, filter, page, limit, order) ==
    /\ Serve
    /\ IF ~Passes(caller, ListRoles(op))
       THEN resp' = Gated(op, caller)
       ELSE resp' = PageResponse(op, caller, name, filter, page, limit, order)
    /\ UNCHANGED <<store, clock>>

GetPatients(caller, page, limit, order) ==
    Page("GET /api/patients", caller, None, Absent, page, limit, order)

GetAppointments(caller, status, page, limit, order) ==
    Page("GET /api/appointments", caller, None, status, page, limit, order)

GetReports(caller, page, limit, order) ==
    Page("GET /api/reports", caller, None, Absent, page, limit, order)

GetBills(caller, paymentStatus, page, limit, order) ==
    Page("GET /api/bills", caller, None, paymentStatus, page, limit, order)

(* the admin list routes sort on createdAt descending and take no order *)
AdminPage(caller, name, page, limit) ==
    Page("GET /api/admin/:collection", caller, name, Absent, page, limit, Absent)

(* GET /api/appointments/doctor/:doctorId: query = { doctorId }, with the   *)
(* status filter; the records come sorted on date and time, here in the     *)
(* order they were made; no page is cut                                     *)
GetAppointmentsByDoctor(caller, doctorId, status) ==
    LET op == "GET /api/appointments/doctor/:doctorId"
        ids == {i \in 1..Len(appointments) :
                   /\ appointments[i].live
                   /\ appointments[i].doctorId = doctorId
                   /\ status # Absent => appointments[i].status = status[1]}
    IN  /\ Serve
        /\ IF ~Passes(caller, AppointmentsByDoctorRoles)
           THEN resp' = Gated(op, caller)
           ELSE resp' = [op |-> op, caller |-> caller, id |-> doctorId, refs |-> <<status>>,
                         status |-> 200, error |-> None, handler |-> TRUE, was |-> <<>>,
                         data |-> Sort(ids, 1), count |-> Cardinality(ids)]
        /\ UNCHANGED <<store, clock>>

(* Listings of a store the staff fill, by the staff and by doctors with and *)
(* without a Doctor record, for the page and limit strings below.           *)
ListCallers == {"admin1", "doc1", "doc3"}
PageStrings == {Absent, Given("1"), Given("2")}
LimitStrings == {Absent, Given("-1"), Given("0"), Given("1"), Given("2")}
Orders == {Absent, Given("asc")}

NextLists ==
    \/ PostPatient("recep1", "9876543210", None)
    \/ \E d \in 1..Len(Doctors) : PostAppointment("recep1", 1, d)
    \/ \E d \in 1..Len(Doctors) : PostReport("admin1", 1, 1, d)
    \/ PostBill("recep1", 1, NoId, 100)
    \/ \E id \in BillIds : PutBill("recep1", id, Absent, Given("paid"), NoOthers, clock)
    \/ \E c \in ListCallers, pg \in PageStrings, lm \in LimitStrings, o \in Orders :
          GetPatients(c, pg, lm, o)
    \/ \E c \in ListCallers, st \in {Absent, Given("pending")},
          pg \in PageStrings, lm \in LimitStrings, o \in Orders :
          GetAppointments(c, st, pg, lm, o)
    \/ \E c \in ListCallers, pg \in PageStrings, lm \in LimitStrings, o \in Orders :
          GetReports(c, pg, lm, o)
    \/ \E c \in {"admin1", "recep1"}, st \in {Absent, Given("paid")},
          pg \in PageStrings, lm \in LimitStrings, o \in Orders :
          GetBills(c, st, pg, lm, o)
    \/ \E c \in ListCallers, n \in AdminCollections, pg \in PageStrings, lm \in LimitStrings :
          AdminPage(c, n, pg, lm)
    \/ \E c \in ListCallers, d \in 1..Len(Doctors), st \in {Absent, Given("pending")} :
          GetAppointmentsByDoctor(c, d, st)
    \/ Close

SpecLists == Init /\ [][NextLists]_vars

(* a listing was answered with a page *)
Paged == resp.op \in PagedOps /\ resp.status = 200

(* C12: on every paginated listing, for every page and limit the handler   *)
(* accepts (limit 0 or below included), pages is ceil(total / limit) and    *)
(* the records returned are at most limit.                                  *)
C12_PageSummary ==
    Paged =>
        /\ resp.pagination.limit # 0
        /\ resp.pagination.pages = Given(Ceil(resp.pagination.total, resp.pagination.limit))
        /\ Len(resp.data) <= resp.pagination.limit

(* the ids a listing's filter matches, for the caller it is scoped to *)
Filtered(r) == Matching(r.op, r.caller, r.refs[1], r.refs[2])

(* the records at positions lo to hi (from 0) of a sequence *)
Positions(seq, lo, hi) ==
    LET last == IF hi + 1 > Len(seq) THEN Len(seq) ELSE hi + 1
    IN  IF lo < 0 \/ lo + 1 > last THEN <<>> ELSE SubSeq(seq, lo + 1, last)

(* C13: without page and limit, page is 1 and limit is 10; for any page and *)
(* limit the records returned are those at positions (page-1)*limit to      *)
(* (page-1)*limit+limit-1 of the filtered, sorted result; total counts all  *)
(* records matching the filter; an empty collection gives page 1, limit 10, *)
(* total 0, pages 0.                                                        *)
C13_PageWindow ==
    Paged =>
        LET g == resp.pagination
            lo == (g.page - 1) * g.limit
        IN  /\ resp.refs[3] = Absent => g.page = 1
            /\ resp.refs[4] = Absent => g.limit = 10
            /\ resp.data = Positions(Sort(Filtered(resp), SortOrder(resp.refs[5])),
                                     lo, lo + g.limit - 1)
            /\ g.total = Cardinality(Filtered(resp))
            /\ (resp.refs[3] = Absent /\ resp.refs[4] = Absent /\ Filtered(resp) = {}) =>
                  g = [page |-> 1, limit |-> 10, total |-> 0, pages |-> Given(0)]

(* the listings a doctor is scoped on, and what their filter alone matches *)
ScopedOps == {"GET /api/appointments", "GET /api/reports"}

MatchesFilter(r, i) ==
    /\ ListColl(r.op, None)[i].live
    /\ (r.op = "GET /api/appointments" /\ r.refs[2] # Absent) =>
          appointments[i].status = r.refs[2][1]

OfDoctor(r, d) ==
    {i \in 1..Len(ListColl(r.op, None)) :
        MatchesFilter(r, i) /\ ListColl(r.op, None)[i].doctorId = d}

(* C14: a doctor with a linked Doctor record gets from GET /api/appointments *)
(* and GET /api/reports only records whose doctorId is that record's id, and *)
(* total counts only those, whatever the filter; admin and reception get     *)
(* the records of every doctor.                                              *)
C14_DoctorSeesOwn ==
    (Paged /\ resp.op \in ScopedOps) =>
        LET own == FindDoctorByUser(resp.caller)
            all == {i \in 1..Len(ListColl(resp.op, None)) : MatchesFilter(resp, i)}
        IN  /\ (RoleOf(resp) = "doctor" /\ own # NoId) =>
                  /\ \A k \in 1..Len(resp.data) : resp.data[k] \in OfDoctor(resp, own)
                  /\ resp.pagination.total = Cardinality(OfDoctor(resp, own))
            /\ RoleOf(resp) \in {"admin", "reception"} =>
                  resp.pagination.total = Cardinality(all)

C14_OtherDoctorsLeftOut ==
    /\ Paged
    /\ resp.op = "GET /api/appointments"
    /\ resp.caller = "doc1"
    /\ Len(resp.data) = 1
    /\ \E i \in 1..Len(appointments) : appointments[i].live /\ appointments[i].doctorId = 2

(* C15: a doctor with no linked Doctor record gets from GET /api/appointments *)
(* and GET /api/reports 200 with no records and total 0, in every store       *)
(* state.                                                                     *)
C15_UnlinkedDoctorSeesNone ==
    (Paged /\ resp.op \in ScopedOps /\ RoleOf(resp) = "doctor"
        /\ FindDoctorByUser(resp.caller) = NoId) =>
        /\ resp.data = <<>>
        /\ resp.pagination.total = 0

DeleteOps == {"DELETE /api/patients/:id", "DELETE /api/appointments/:id",
              "DELETE /api/reports/:id"}

(* the documents of a collection that exist, by id *)
Live(coll) == {i \in 1..Len(coll) : coll[i].live}

(* a DELETE answered for `id` took exactly that document out of a collection *)
TookOut(before, after, id) ==
    /\ Len(after) = Len(before)
    /\ Live(after) = Live(before) \ {id}
    /\ \A i \in Live(after) : after[i] = before[i]

(* C16: DELETE on a patient, appointment or report is admin-only; for an id *)
(* that does not exist it answers 404 and the store is unchanged; for an    *)
(* existing id it answers 200 and exactly that record is gone, so a second  *)
(* DELETE of the id answers 404.                                            *)
C16_DeleteOnce ==
    [][(Handled /\ resp'.op \in DeleteOps /\ resp'.caller \in Users) =>
         /\ RoleOf(resp') # "admin" => (resp'.status = 403 /\ store' = store)
         /\ (RoleOf(resp') = "admin" /\ resp'.op = "DELETE /api/patients/:id") =>
               IF resp'.id \in Live(patients)
               THEN /\ resp'.status = 200
                    /\ TookOut(patients, patients', resp'.id)
                    /\ UNCHANGED <<appointments, reports, bills>>
               ELSE resp'.status = 404 /\ store' = store
         /\ (RoleOf(resp') = "admin" /\ resp'.op = "DELETE /api/appointments/:id") =>
               IF resp'.id \in Live(appointments)
               THEN /\ resp'.status = 200
                    /\ TookOut(appointments, appointments', resp'.id)
                    /\ UNCHANGED <<patients, reports, bills>>
               ELSE resp'.status = 404 /\ store' = store
         /\ (RoleOf(resp') = "admin" /\ resp'.op = "DELETE /api/reports/:id") =>
               IF resp'.id \in Live(reports)
               THEN /\ resp'.status = 200
                    /\ TookOut(reports, reports', resp'.id)
                    /\ UNCHANGED <<patients, appointments, bills>>
               ELSE resp'.status = 404 /\ store' = store]_vars

C16_SecondDeleteNotFound ==
    /\ resp.op = "DELETE /api/appointments/:id"
    /\ resp.status = 404
    /\ resp.id \in 1..Len(appointments)
    /\ ~appointments[resp.id].live

----------------------------------------------------------------------------
(* Updates *)

PutOps ==
    {"PUT /api/patients/:id", "PUT /api/appointments/:id", "PUT /api/reports/:id",
     "PUT /api/bills/:id"}

(* the collection an update writes, out of the four given *)
PutColl(op, p, a, r, b) ==
    CASE op = "PUT /api/patients/:id" -> p
      [] op = "PUT /api/appointments/:id" -> a
      [] op = "PUT /api/reports/:id" -> r
      [] OTHER -> b

(* the updatable fields of the record, in the order the request carries them *)
BodyFields(op) ==
    CASE op = "PUT /api/patients/:id" -> <<"phone">>
      [] op = "PUT /api/appointments/:id" -> <<"status">>
      [] op = "PUT /api/reports/:id" -> <<"diagnosis">>
      [] OTHER -> <<"totalAmount", "paymentStatus">>

(* An update that was handled in this step: for a missing id it answers 404 *)
(* and the store stays; when it answers 200, every field the body carries   *)
(* takes the body's value, every updatable field the body leaves out keeps  *)
(* its value, and nothing else changes but the fields in `derived`.         *)
PutMerges(derived) ==
    Handled /\ resp'.op \in PutOps /\ resp'.handler =>
        LET op == resp'.op
            id == resp'.id
            before == PutColl(op, patients, appointments, reports, bills)
            after == PutColl(op, patients', appointments', reports', bills')
            fields == BodyFields(op)
            named == {fields[k] : k \in 1..Len(fields)}
        IN  /\ ~Found(before, id) => resp'.status = 404 /\ store' = store
            /\ resp'.status # 200 => store' = store
            /\ resp'.status = 200 =>
                  /\ Found(before, id)
                  /\ \A k \in 1..Len(fields) :
                        after[id][fields[k]] =
                            IF resp'.refs[k] = Absent THEN before[id][fields[k]]
                            ELSE resp'.refs[k][1]
                  /\ \A f \in DOMAIN before[id] \ (named \cup derived) :
                        after[id][f] = before[id][f]
                  /\ Len(after) = Len(before)
                  /\ \A j \in 1..Len(before) : j # id => after[j] = before[j]
                  /\ \A o \in PutOps \ {op} :
                        PutColl(o, patients', appointments', reports', bills')
                            = PutColl(o, patients, appointments, reports, bills)

----------------------------------------------------------------------------
(* The dashboard *)

RECURSIVE AmountUpTo(_, _)
(* the totalAmount of the stored bills 1..n whose paymentStatus is `status` *)
AmountUpTo(n, status) ==
    IF n = 0 THEN 0
    ELSE AmountUpTo(n - 1, status)
            + (IF bills[n].live /\ bills[n].paymentStatus = status
               THEN bills[n].totalAmount ELSE 0)

(* C18: the analytics endpoint reports totalRevenue as the sum of           *)
(* totalAmount over the bills with paymentStatus "paid" and pendingAmount   *)
(* as the sum over those with "pending" (a "failed" bill is in neither),    *)
(* each total count as the number of records then in its collection, and    *)
(* it modifies nothing.                                                     *)
C18_AnalyticsTotals ==
    [][Handled /\ resp'.op = "GET /api/admin/analytics" /\ resp'.status = 200 =>
          /\ store' = store
          /\ resp'.overview.totalRevenue = AmountUpTo(Len(bills), "paid")
          /\ resp'.overview.pendingAmount = AmountUpTo(Len(bills), "pending")
          /\ resp'.overview.totalPatients = Cardinality(Live(patients))
          /\ resp'.overview.totalAppointments = Cardinality(Live(appointments))
          /\ resp'.overview.totalReports = Cardinality(Live(reports))
          /\ resp'.overview.totalBills = Cardinality(Live(bills))
          /\ resp'.overview.totalDoctors = Len(Doctors)]_vars

(* C18 witness: the dashboard was read with a paid bill and a failed bill   *)
(* of different amounts stored, and reported the paid one as the revenue.   *)
C18_FailedBillLeftOut ==
    /\ resp.op = "GET /api/admin/analytics"
    /\ resp.status = 200
    /\ \E i, j \in Live(bills) :
          /\ bills[i].paymentStatus = "paid"
          /\ bills[j].paymentStatus = "failed"
          /\ bills[i].totalAmount # bills[j].totalAmount
          /\ resp.overview.totalRevenue = bills[i].totalAmount
    /\ resp.overview.pendingAmount = 0
    /\ resp.overview.totalBills = 2

----------------------------------------------------------------------------
(* Appointment status *)

(* C19: the status of every stored appointment is one of pending,           *)
(* approved, cancelled, completed; an appointment is created pending; an    *)
(* update of an existing appointment that carries one of the four values    *)
(* is accepted and stores it, whatever the stored status, and one that      *)
(* carries any other value is refused and leaves the record as it was.      *)
C19_StatusInEnum ==
    [][/\ \A i \in Live(appointments') : appointments'[i].status \in AppointmentStatuses
       /\ Handled /\ resp'.op = "POST /api/appointments" /\ resp'.status = 201 =>
             /\ Len(appointments') = Len(appointments) + 1
             /\ appointments'[resp'.id].status = "pending"
       /\ Handled /\ resp'.op = "PUT /api/appointments/:id" /\ resp'.handler
             /\ Found(appointments, resp'.id) /\ resp'.refs[1] # Absent =>
             IF resp'.refs[1][1] \in AppointmentStatuses
             THEN /\ resp'.status = 200
                  /\ appointments'[resp'.id].status = resp'.refs[1][1]
             ELSE /\ resp'.status # 200
                  /\ store' = store]_vars

----------------------------------------------------------------------------
(* Creates in flight.  A create awaits its lookups and then its insert; a   *)
(* delete handled in between is seen by neither.  The lookups of one        *)
(* request are taken as one step: when no delete is handled between them    *)
(* they read the same documents, and a delete between two of them is a      *)
(* delete between the check and the create.                                 *)

(* the documents deleted so far, of the collections a create looks up *)
Tombstones ==
    Cardinality({i \in 1..Len(patients) : ~patients[i].live})
        + Cardinality({i \in 1..Len(appointments) : ~appointments[i].live})

(* a create that passed its lookups waits for its insert; `seen` is the     *)
(* number of deleted documents when it looked                               *)
Checked(op, caller, refs) ==
    [op |-> op, pc |-> "create", caller |-> caller, refs |-> refs, seen |-> Tombstones]

(* the lookups of a create: refused, or parked in slot s for its insert *)
Verify(s, op, caller, roles, refs, refError) ==
    /\ resp = Idle
    /\ flight[s] = Free
    /\ IF ~Passes(caller, roles)
       THEN /\ resp' = Gated(op, caller)
            /\ UNCHANGED flight
       ELSE IF refError # None
       THEN /\ resp' = Response(op, caller, NoId, refs, 404, refError, TRUE)
            /\ UNCHANGED flight
       ELSE /\ Park(s, Checked(op, caller, refs))
            /\ UNCHANGED resp
    /\ UNCHANGED <<store, clock>>

(* the 201 of the create parked in slot s, for the document with id `id` *)
Created(s, id) ==
    /\ resp' = Response(flight[s].op, flight[s].caller, id, flight[s].refs, 201, None, TRUE)
    /\ Leave(s)

(* POST /api/appointments: Patient.findById, Doctor.findById *)
PostAppointmentVerify(s, caller, patientId, doctorId) ==
    Verify(s, "POST /api/appointments", caller, AppointmentsPostRoles,
           <<patientId, doctorId>>, AppointmentRefError(patientId, doctorId))

(* POST /api/appointments: Appointment.create *)
PostAppointmentCreate(s) ==
    /\ resp = Idle
    /\ InFlight(s, "POST /api/appointments", "create")
    /\ Room(appointments)
    /\ appointments' = Append(appointments,
                              AppointmentDoc(flight[s].refs[1], flight[s].refs[2],
                                             flight[s].caller))
    /\ Created(s, Len(appointments) + 1)
    /\ UNCHANGED <<patients, reports, bills, clock>>

(* POST /api/reports: Appointment.findById, Patient.findById, Doctor.findById *)
PostReportVerify(s, caller, appointmentId, patientId, doctorId) ==
    Verify(s, "POST /api/reports", caller, ReportsPostRoles,
           <<appointmentId, patientId, doctorId>>,
           ReportRefError(appointmentId, patientId, doctorId))

(* POST /api/reports: Report.create *)
PostReportCreate(s) ==
    /\ resp = Idle
    /\ InFlight(s, "POST /api/reports", "create")
    /\ Room(reports)
    /\ reports' = Append(reports, ReportDoc(flight[s].refs[1], flight[s].refs[2],
                                            flight[s].refs[3], BodyDiagnosis, flight[s].caller))
    /\ Created(s, Len(reports) + 1)
    /\ UNCHANGED <<patients, appointments, bills, clock>>

(* POST /api/bills: Patient.findById, and Appointment.findById if provided *)
PostBillVerify(s, caller, patientId, appointmentId, totalAmount) ==
    Verify(s, "POST /api/bills", caller, BillsPostRoles,
           <<patientId, appointmentId, totalAmount>>, BillRefError(patientId, appointmentId))

(* POST /api/bills: Bill.create *)
PostBillCreate(s) ==
    /\ resp = Idle
    /\ InFlight(s, "POST /api/bills", "create")
    /\ Room(bills)
    /\ bills' = Append(bills, BillDoc(flight[s].refs[1], flight[s].refs[2], flight[s].refs[3],
                                   flight[s].caller))
    /\ Created(s, Len(bills) + 1)
    /\ UNCHANGED <<patients, appointments, reports, clock>>

(* The creates that check references, step by step, with the deletes of     *)
(* what they refer to handled at any point between their steps.             *)
NextRefs ==
    \/ PostPatient("recep1", "9876543210", None)
    \/ \E s \in Slots, p \in PatientIds : PostAppointmentVerify(s, "recep1", p, 1)
    \/ \E s \in Slots : PostAppointmentCreate(s)
    \/ \E s \in Slots, a \in AppointmentIds, p \in PatientIds :
          PostReportVerify(s, "doc1", a, p, 1)
    \/ \E s \in Slots : PostReportCreate(s)
    \/ \E s \in Slots, p \in PatientIds, a \in AppointmentIds \cup {NoId}, t \in Amounts :
          PostBillVerify(s, "recep1", p, a, t)
    \/ \E s \in Slots : PostBillCreate(s)
    \/ \E id \in PatientIds : DeletePatient("admin1", id)
    \/ \E id \in AppointmentIds : DeleteAppointment("admin1", id)
    \/ Close

SpecRefs == Init /\ [][NextRefs]_vars

RefCreateOps == {"POST /api/appointments", "POST /api/reports", "POST /api/bills"}

(* the response is the 201 of a create whose new record refers to a         *)
(* patient, appointment or doctor that is not in the store                  *)
CreatedDangling ==
    /\ resp.op \in RefCreateOps
    /\ resp.status = 201
    /\ CASE resp.op = "POST /api/appointments" ->
              \/ ~Found(patients, appointments[resp.id].patientId)
              \/ ~Found(Doctors, appointments[resp.id].doctorId)
         [] resp.op = "POST /api/reports" ->
              \/ ~Found(appointments, reports[resp.id].appointmentId)
              \/ ~Found(patients, reports[resp.id].patientId)
              \/ ~Found(Doctors, reports[resp.id].doctorId)
         [] OTHER ->
              \/ ~Found(patients, bills[resp.id].patientId)
              \/ /\ bills[resp.id].appointmentId # NoId
                 /\ ~Found(appointments, bills[resp.id].appointmentId)

(* C20: the existence check and the create of POST appointments, reports    *)
(* and bills are not atomic with respect to deletes: a DELETE of the        *)
(* referenced patient or appointment handled between them leaves the        *)
(* create to answer 201 with a dangling reference (the witness below);      *)
(* when no delete was handled between the check and the create, the record  *)
(* created refers to entities that are in the store when it is written.     *)
C20_NoDeleteNoDangling ==
    [][\A s \in Slots :
          /\ flight[s] # Free
          /\ flight'[s] = Free
          /\ resp'.status = 201
          /\ flight[s].seen = Tombstones
          => ~CreatedDangling']_vars

(* C20 witness: an appointment was created, with 201, for a patient that    *)
(* was deleted after the create had looked the patient up                   *)
C20_CreatedForDeletedPatient ==
    /\ CreatedDangling
    /\ resp.op = "POST /api/appointments"
    /\ resp.refs[1] \in 1..Len(patients)
    /\ ~patients[resp.refs[1]].live

----------------------------------------------------------------------------
(* Listings in flight: Model.find(query)... is awaited, and then            *)
(* Model.countDocuments(query); a write handled in between is seen by the   *)
(* second and not by the first.                                             *)

CountMatchingEver(op, caller, name, filter) == Len(ListColl(op, name))

(* Model.countDocuments(query) *)
CountMatching(op, caller, name, filter) == Cardinality(Matching(op, caller, name, filter))

(* a listing that fetched its page waits for its count; `read` is the       *)
(* store the page was fetched from                                          *)
Fetched(op, caller, refs, data) ==
    [op |-> op, pc |-> "count", caller |-> caller, refs |-> refs, data |-> data,
     read |-> store]

(* a listing route up to its page fetch *)
PageFind(s, op, caller, filter, page, limit, order) ==
    LET refs == <<None, filter, page, limit, order>>
        skip == (PageNum(page) - 1) * LimitNum(limit)
    IN  /\ resp = Idle
        /\ flight[s] = Free
        /\ IF ~Passes(caller, ListRoles(op))
           THEN /\ resp' = Gated(op, caller)
                /\ UNCHANGED flight
           ELSE IF skip < 0
           THEN /\ resp' = Response(op, caller, NoId, refs, errorHandler("MongoServerError"),
                                    "Server Error", TRUE)
                /\ UNCHANGED flight
           ELSE /\ Park(s, Fetched(op, caller, refs,
                                   Window(Sort(Matching(op, caller, None, filter),
                                               SortOrder(order)), skip, LimitNum(limit))))
                /\ UNCHANGED resp
        /\ UNCHANGED <<store, clock>>

(* the count of a listing that fetched its page, and its response *)
PageCount(s) ==
    LET r == flight[s]
        total == CountMatching(r.op, r.caller, r.refs[1], r.refs[2])
    IN  /\ resp = Idle
        /\ flight[s] # Free
        /\ flight[s].pc = "count"
        /\ resp' = Listed(r.op, r.caller, r.refs, r.data,
                          [page |-> PageNum(r.refs[3]), limit |-> LimitNum(r.refs[4]),
                           total |-> total, pages |-> Pages(total, LimitNum(r.refs[4]))])
        /\ Leave(s)
        /\ UNCHANGED <<store, clock>>

SplitLists == {"GET /api/appointments", "GET /api/bills"}
SplitFilters(op) ==
    IF op = "GET /api/appointments" THEN {Absent, Given("pending")} ELSE {Absent, Given("paid")}

(* the slot of the listing in flight: one listing at a time is followed    *)
ListSlot == 1

(* The listings of appointments and bills, step by step, with the writes    *)
(* to those collections handled at any point between their steps.           *)
NextPages ==
    \/ PostPatient("recep1", "9876543210", None)
    \/ PostAppointment("recep1", 1, 1)
    \/ PostBill("recep1", 1, NoId, 100)
    \/ \E id \in AppointmentIds : DeleteAppointment("admin1", id)
    \/ \E id \in BillIds : PutBill("recep1", id, Absent, Given("paid"), NoOthers, clock)
    \/ \E op \in SplitLists, lm \in {Absent, Given("1")} :
          \E f \in SplitFilters(op) : PageFind(ListSlot, op, "recep1", f, Absent, lm, Absent)
    \/ PageCount(ListSlot)
    \/ Close

SpecPages == Init /\ [][NextPages]_vars

(* record i is in the store and passes the filter of the listing r *)
InQuery(r, i) ==
    /\ i \in Live(ListColl(r.op, None))
    /\ r.refs[2] # Absent =>
          IF r.op = "GET /api/appointments"
          THEN appointments[i].status = r.refs[2][1]
          ELSE bills[i].paymentStatus = r.refs[2][1]

(* C21: the page and the total of a listing come from two store queries.    *)
(* When no write is handled between them, total is the number of records    *)
(* the query matches and every record returned is one of them (so a         *)
(* request repeated after the writes have stopped is consistent); a write   *)
(* between them can leave a total that disagrees with the page (the         *)
(* witness below).                                                          *)
C21_ConsistentWithoutWrites ==
    [][\A s \in Slots :
          /\ flight[s] # Free
          /\ flight[s].pc = "count"
          /\ flight'[s] = Free
          /\ flight[s].read = store
          => /\ resp'.status = 200
             /\ resp'.pagination.total =
                   Cardinality({i \in 1..Len(ListColl(resp'.op, None)) : InQuery(resp', i)})
             /\ \A k \in 1..Len(resp'.data) : InQuery(resp', resp'.data[k])]_vars

(* C21 witness: a listing answered with more records than its total: the    *)
(* record it fetched was deleted before it counted                          *)
C21_MoreItemsThanTotal ==
    /\ resp.op \in SplitLists
    /\ resp.status = 200
    /\ Len(resp.data) > resp.pagination.total

----------------------------------------------------------------------------
(* The server: app.use(prefix, router) mounts a router; a request under a   *)
(* prefix no router is mounted at falls through every middleware and is     *)
(* answered by the framework with 404, without reaching a gate or a handler *)

(* the routers of the REST surface, by prefix *)
Routers == {"/api/patients", "/api/appointments", "/api/reports", "/api/bills", "/api/admin"}

(* the app.use lines that are not commented out *)
Mounted == {"/api/auth", "/api/patients"}

(* the answer to a request that no route took *)
Unhandled(prefix, op, caller) ==
    Response(op, caller, NoId, <<prefix>>, 404, "Cannot " \o op, FALSE)

(* a request under `prefix`: the router's action when it is mounted *)
Dispatch(prefix, op, caller, routed) ==
    IF prefix \in Mounted
    THEN routed
    ELSE /\ Serve
         /\ resp' = Unhandled(prefix, op, caller)
         /\ UNCHANGED <<store, clock>>

ServerCallers == {"admin1", "recep1", "pat1", NoUser}

(* The requests to the running server, one of each router's routes at least *)
NextServer ==
    \/ \E c \in ServerCallers, ph \in Phones, u \in LinkedUsers :
          Dispatch("/api/patients", "POST /api/patients", c, PostPatient(c, ph, u))
    \/ \E c \in ServerCallers, id \in PatientIds :
          Dispatch("/api/patients", "GET /api/patients/:id", c, GetPatient(c, id))
    \/ \E c \in ServerCallers, id \in PatientIds :
          Dispatch("/api/patients", "DELETE /api/patients/:id", c, DeletePatient(c, id))
    \/ \E c \in ServerCallers, p \in PatientIds :
          Dispatch("/api/appointments", "POST /api/appointments", c, PostAppointment(c, p, 1))
    \/ \E c \in ServerCallers, id \in AppointmentIds :
          Dispatch("/api/appointments", "GET /api/appointments/:id", c, GetAppointment(c, id))
    \/ \E c \in ServerCallers, id \in ReportIds :
          Dispatch("/api/reports", "GET /api/reports/:id", c, GetReport("GET /api/reports/:id", c, id))
    \/ \E c \in ServerCallers, p \in PatientIds, t \in Amounts :
          Dispatch("/api/bills", "POST /api/bills", c, PostBill(c, p, NoId, t))
    \/ \E c \in ServerCallers :
          Dispatch("/api/admin", "GET /api/admin/analytics", c, AdminAnalytics(c))
    \/ Close

SpecServer == Init /\ [][NextServer]_vars

(* C22: a request under /api/patients, /api/appointments, /api/reports,     *)
(* /api/bills or /api/admin is dispatched to that router, and so to its     *)
(* gate: none is left unhandled.                                            *)
C22_RoutersMounted ==
    (resp # Idle /\ resp.status = 404 /\ ~resp.handler) => resp.refs[1] \notin Routers

----------------------------------------------------------------------------
(* References *)

(* the live records of a collection whose field `ref` holds `id` *)
Referring(coll, ref, id) == {i \in Live(coll) : coll[i][ref] = id}

(* C23: a successful DELETE of a patient or of an appointment leaves every  *)
(* appointment, report and bill that refers to it in the store, unchanged.  *)
C23_DeleteLeavesReferrers ==
    [][Handled /\ resp'.status = 200 =>
          /\ resp'.op = "DELETE /api/patients/:id" =>
                /\ ~Found(patients', resp'.id)
                /\ \A i \in Referring(appointments, "patientId", resp'.id) :
                      Found(appointments', i) /\ appointments'[i] = appointments[i]
                /\ \A i \in Referring(reports, "patientId", resp'.id) :
                      Found(reports', i) /\ reports'[i] = reports[i]
                /\ \A i \in Referring(bills, "patientId", resp'.id) :
                      Found(bills', i) /\ bills'[i] = bills[i]
          /\ resp'.op = "DELETE /api/appointments/:id" =>
                /\ ~Found(appointments', resp'.id)
                /\ \A i \in Referring(reports, "appointmentId", resp'.id) :
                      Found(reports', i) /\ reports'[i] = reports[i]
                /\ \A i \in Referring(bills, "appointmentId", resp'.id) :
                      Found(bills', i) /\ bills'[i] = bills[i]]_vars

(* C23 witness: a patient was deleted and an appointment that refers to     *)
(* the patient is still stored                                              *)
C23_AppointmentOfDeletedPatient ==
    /\ resp.op = "DELETE /api/patients/:id"
    /\ resp.status = 200
    /\ Referring(appointments, "patientId", resp.id) # {}

----------------------------------------------------------------------------
(* The order of the checks of a read *)

SingleReads == {"GET /api/bills/:id", "GET /api/reports/:id", "GET /api/appointments/:id"}

----------------------------------------------------------------------------
(* The by-doctor listing *)

(* C25: from GET /api/appointments/doctor/:doctorId a doctor-role caller    *)
(* gets appointments only when :doctorId is the id of their own Doctor      *)
(* record, and never the appointments of another doctor.                    *)
C25_ByDoctorScoped ==
    (resp.op = "GET /api/appointments/doctor/:doctorId" /\ resp.status = 200
        /\ RoleOf(resp) = "doctor") =>
        /\ resp.data # <<>> => resp.id = FindDoctorByUser(resp.caller)
        /\ \A k \in 1..Len(resp.data) :
              appointments[resp.data[k]].doctorId = FindDoctorByUser(resp.caller)

----------------------------------------------------------------------------
(* Reference and audit fields *)

RefPutOps == {"PUT /api/appointments/:id", "PUT /api/reports/:id", "PUT /api/bills/:id"}

(* the reference and audit fields of the record an update writes *)
KeptFields(op) ==
    CASE op = "PUT /api/appointments/:id" -> {"patientId", "doctorId", "createdBy"}
      [] op = "PUT /api/reports/:id" -> {"appointmentId", "patientId", "doctorId", "createdBy"}
      [] OTHER -> {"patientId", "appointmentId", "createdBy"}

(* the record a create inserted *)
Inserted201(r, a, rp, b) ==
    CASE r.op = "POST /api/appointments" -> a[r.id]
      [] r.op = "POST /api/reports" -> rp[r.id]
      [] OTHER -> b[r.id]

(* C26: no PUT changes an appointment's patientId, doctorId or createdBy,   *)
(* a report's appointmentId, patientId, doctorId or createdBy, or a bill's  *)
(* patientId, appointmentId or createdBy, whatever its body carries, and    *)
(* a record is created with createdBy the user who issued the create.       *)
C26_ReferencesImmutable ==
    [][/\ Handled /\ resp'.op \in RefPutOps =>
             LET before == PutColl(resp'.op, patients, appointments, reports, bills)
                 after == PutColl(resp'.op, patients', appointments', reports', bills')
             IN  /\ Len(after) = Len(before)
                 /\ \A i \in 1..Len(before) : \A f \in KeptFields(resp'.op) :
                       after[i][f] = before[i][f]
       /\ Handled /\ resp'.op \in RefCreateOps /\ resp'.status = 201 =>
             Inserted201(resp', appointments', reports', bills').createdBy = resp'.caller]_vars

(* C26 witness: an update of a report whose body named another patient,     *)
(* doctor, appointment and creator was answered 200, and the report has     *)
(* the ones it was created with                                             *)
C26_BodyNamedOtherReferences ==
    /\ resp.op = "PUT /api/reports/:id"
    /\ resp.status = 200
    /\ resp.refs[2] # NoOthers
    /\ \A f \in KeptFields(resp.op) :
          reports[resp.id][f] # resp.refs[2][f] /\ reports[resp.id][f] = resp.was[1][f]

----------------------------------------------------------------------------
(* Bill updates in flight: Bill.findById is awaited, updateData is built    *)
(* from the bill it gave, and Bill.findByIdAndUpdate is awaited after.      *)

UpdateDataUnstamped(bill, totalAmount, paymentStatus, now) ==
    [totalAmount |-> totalAmount, paymentStatus |-> paymentStatus, paidAt |-> Absent]

(* updateData: the body's fields, and paidAt = new Date() when the body     *)
(* says paid and the bill read does not                                     *)
UpdateData(bill, totalAmount, paymentStatus, now) ==
    [totalAmount |-> totalAmount, paymentStatus |-> paymentStatus,
     paidAt |-> IF StampsPaidAt(paymentStatus, bill) THEN Given(now) ELSE Absent]

(* findByIdAndUpdate(id, updateData) on the bill as stored by then *)
ApplyUpdate(bill, updateData) ==
    [bill EXCEPT !.totalAmount = Merge(@, updateData.totalAmount),
                 !.paymentStatus = Merge(@, updateData.paymentStatus),
                 !.paidAt = Merge(@, updateData.paidAt)]

(* PUT /api/bills/:id up to updateData, at time `now` *)
PutBillFind(s, caller, id, totalAmount, paymentStatus, now) ==
    LET op == "PUT /api/bills/:id"
        refs == <<totalAmount, paymentStatus, NoOthers>>
    IN  /\ resp = Idle
        /\ flight[s] = Free
        /\ now >= clock
        /\ IF ~Passes(caller, BillsPutRoles)
           THEN /\ resp' = Gated(op, caller)
                /\ UNCHANGED <<flight, clock>>
           ELSE IF ~Found(bills, id)
           THEN /\ resp' = Response(op, caller, id, refs, 404, "Bill not found", TRUE)
                /\ UNCHANGED <<flight, clock>>
           ELSE /\ Park(s, [op |-> op, pc |-> "update", caller |-> caller, id |-> id,
                            refs |-> refs, was |-> bills[id],
                            updateData |-> UpdateData(bills[id], totalAmount,
                                                      paymentStatus, now)])
                /\ clock' = now
                /\ UNCHANGED resp
        /\ UNCHANGED store

(* PUT /api/bills/:id: findByIdAndUpdate with runValidators, and the answer *)
PutBillUpdate(s) ==
    LET op == "PUT /api/bills/:id"
        r == flight[s]
    IN  /\ resp = Idle
        /\ InFlight(s, op, "update")
        /\ IF ~ValidBillUpdate(r.updateData.totalAmount, r.updateData.paymentStatus)
           THEN /\ resp' = Response(op, r.caller, r.id, r.refs,
                                    errorHandler("ValidationError"), "Validation failed", TRUE)
                /\ UNCHANGED bills
           ELSE /\ bills' = [bills EXCEPT ![r.id] = ApplyUpdate(@, r.updateData)]
                /\ resp' = Updated(Response(op, r.caller, r.id, r.refs, 200, None, TRUE), r.was)
        /\ Leave(s)
        /\ UNCHANGED <<patients, appointments, reports, clock>>

(* The updates of the first bill the reception creates, step by step and   *)
(* in any interleaving, at any time.                                        *)
NextPay ==
    \/ PostPatient("recep1", "9876543210", None)
    \/ PostBill("recep1", 1, NoId, 100)
    \/ \E s \in Slots, st \in {Given("paid"), Given("pending")}, now \in clock..MaxClock :
          PutBillFind(s, "recep1", 1, Absent, st, now)
    \/ \E s \in Slots : PutBillUpdate(s)
    \/ Close

SpecPay == Init /\ [][NextPay]_vars

(* C27: in every reachable state, concurrent updates of bills included, a   *)
(* bill just created is pending with paidAt unset, and a bill whose         *)
(* paymentStatus is "paid" has paidAt set.  The converse does not hold      *)
(* (the witness below).                                                     *)
C27_PaidHasPaidAt ==
    /\ \A i \in Live(bills) : bills[i].paymentStatus = "paid" => bills[i].paidAt # NoDate
    /\ (resp.op = "POST /api/bills" /\ resp.status = 201) =>
          /\ bills[resp.id].paymentStatus = "pending"
          /\ bills[resp.id].paidAt = NoDate

(* C27 witness: an update in flight with another left a bill that is not    *)
(* paid with paidAt set                                                     *)
C27_UnpaidWithPaidAt ==
    /\ resp.op = "PUT /api/bills/:id"
    /\ resp.status = 200
    /\ \E s \in Slots : flight[s] # Free
    /\ bills[resp.id].paymentStatus \in {"pending", "failed"}
    /\ bills[resp.id].paidAt # NoDate

(* C28: the write of an update that lands on a bill whose stored            *)
(* paymentStatus is already "paid" leaves its paidAt as it was, also when   *)
(* two updates that set "paid" on a pending bill run concurrently.          *)
C28_PaidAtNotOverwritten ==
    [][\A s \in Slots :
          (/\ flight[s] # Free
           /\ flight'[s] = Free
           /\ flight[s].was.paymentStatus = "pending"
           /\ flight[s].updateData.paymentStatus = Given("paid")
           /\ resp'.status = 200
           /\ bills[resp'.id].paymentStatus = "paid")
          => bills'[resp'.id].paidAt = bills[resp'.id].paidAt]_vars

----------------------------------------------------------------------------
(* Updates in flight while records are deleted: the handler awaits findById *)
(* and, after it, findByIdAndUpdate, and a DELETE can be served in between. *)

(* PUT /api/appointments/:id: Appointment.findById and its 404 *)
PutAppointmentFind(s, caller, id, status) ==
    LET op == "PUT /api/appointments/:id"
        refs == <<status, NoOthers>>
    IN  /\ resp = Idle
        /\ flight[s] = Free
        /\ IF ~Passes(caller, AppointmentsPutRoles)
           THEN /\ resp' = Gated(op, caller)
                /\ UNCHANGED flight
           ELSE IF ~Found(appointments, id)
           THEN /\ resp' = Response(op, caller, id, refs, 404, "Appointment not found", TRUE)
                /\ UNCHANGED flight
           ELSE /\ Park(s, [op |-> op, pc |-> "update", caller |-> caller, id |-> id,
                            refs |-> refs, status |-> status, was |-> appointments[id]])
                /\ UNCHANGED resp
        /\ UNCHANGED <<store, clock>>

(* PUT /api/appointments/:id: Appointment.findByIdAndUpdate with            *)
(* runValidators, which gives null for a document that is gone, and the     *)
(* 200 that follows it whatever it gave                                     *)
PutAppointmentUpdate(s) ==
    LET op == "PUT /api/appointments/:id"
        r == flight[s]
    IN  /\ resp = Idle
        /\ InFlight(s, op, "update")
        /\ IF ~ValidAppointmentUpdate(r.status)
           THEN /\ resp' = Response(op, r.caller, r.id, r.refs,
                                    errorHandler("ValidationError"), "Validation failed", TRUE)
                /\ UNCHANGED appointments
           ELSE /\ IF Found(appointments, r.id)
                   THEN appointments' = [appointments EXCEPT ![r.id].status = Merge(@, r.status)]
                   ELSE UNCHANGED appointments
                /\ resp' = Updated(Response(op, r.caller, r.id, r.refs, 200, None, TRUE), r.was)
        /\ Leave(s)
        /\ UNCHANGED <<patients, reports, bills, clock>>

(* Updates of patients and of appointments, step by step, with the admin's  *)
(* deletes served between their steps.                                      *)
NextGone ==
    \/ PostPatient("recep1", "9876543210", None)
    \/ PostAppointment("recep1", 1, 1)
    \/ \E s \in Slots, id \in AppointmentIds, st \in {Given("approved"), Given("done")} :
          PutAppointmentFind(s, "recep1", id, st)
    \/ \E s \in Slots : PutAppointmentUpdate(s)
    \/ \E id \in AppointmentIds : DeleteAppointment("admin1", id)
    \/ \E s \in Slots : PutPatientFind(s, "recep1", 1, Absent)
    \/ \E s \in Slots : PutPatientUpdate(s)
    \/ DeletePatient("admin1", 1)
    \/ Close

SpecGone == Init /\ [][NextGone]_vars

PutRoutes == {"PUT /api/patients/:id", "PUT /api/appointments/:id"}

PutCollection(op) == IF op = "PUT /api/patients/:id" THEN patients ELSE appointments

(* C29: a PUT answered 200 has written to a record that exists, the one it  *)
(* returns in data; when a DELETE took the record between the handler's     *)
(* findById and its findByIdAndUpdate the PUT answers 404, not 200 with a   *)
(* null record.                                                             *)
C29_Put200OnExisting ==
    (resp.op \in PutRoutes /\ resp.status = 200) => Found(PutCollection(resp.op), resp.id)

----------------------------------------------------------------------------
(* Patients booking appointments: the patients' records are linked to their *)
(* users, and each patient-role user posts appointments for any record.     *)
NextBook ==
    \/ \E ph \in Phones, u \in {"pat1", "pat2"} : PostPatient("recep1", ph, u)
    \/ \E c \in {"pat1", "pat2"}, p \in PatientIds, d \in DoctorIds : PostAppointment(c, p, d)
    \/ Close

SpecBook == Init /\ [][NextBook]_vars

(* C30: a patient-role caller's POST /api/appointments whose patientId is   *)
(* not the Patient record linked to the caller's own user is answered 403   *)
(* and creates no appointment.                                              *)
C30_PatientBooksOwnOnly ==
    [][(/\ Handled
        /\ resp'.op = "POST /api/appointments"
        /\ RoleOf(resp') = "patient"
        /\ Found(patients, resp'.refs[1])
        /\ resp'.refs[1] # FindPatientByUser(resp'.caller))
       => (resp'.status = 403 /\ appointments' = appointments)]_vars

====
